---- MODULE Spec2Model ----
(***************************************************************************)
(* Early-boot heap allocator of nt_rustos (src/init/alloc): the intrusive, *)
(* address-ordered free list, block headers with magic and checksum, the   *)
(* statistics, the single-lock wrapper and the module-level entry points.  *)
(*                                                                         *)
(* Memory is an array of 32-bit words addressed by byte address (every     *)
(* address that occurs is a multiple of 4).  A word that was never written *)
(* reads 0.  u32 values are kept as their two's-complement signed value;   *)
(* usize/u64 fields occupy two words (low word first, little endian) and   *)
(* every usize/u64 value of the model is below 2^31, so its high word is 0.*)
(***************************************************************************)
EXTENDS Integers, Sequences, FiniteSets, TLC

----------------------------------------------------------------------------
(* Bounds of the model *)

\* size, in 32-bit words, of the heap handed to init
HeapWords == 64
\* number of ticks of the global timestamp counter that are explored
MaxClock == 7
\* number of failing calls that are counted (failed_allocs,
\* double_free_attempts, corrupted_blocks together)
MaxErr == 2
\* number of ticks explored when the core is explored alone
CoreClock == 11
\* SpecCensus: the allocations its first state has made, and those it explores
CensusPrefill == 510
CensusExtra == 60
\* SpecList: the blocks its heap holds, and the timestamp ticks it explores
ListBlocks == 6
ListClock == 14
\* SpecLock: the timestamp ticks and failed calls its callers explore
LockBudget == 8
\* SpecArgs: the timestamp ticks it explores
ArgsClock == 6

\* sizes requested from alloc/alloc_aligned
ReqSizes == {0, 16, 20}
\* alignments requested from alloc_aligned (3 is not a power of two, 8 is
\* the alignment alloc passes)
ReqAligns == {3, 8}
\* purposes passed to set_purpose: Unknown = 0, KernelStack = 4
Unknown == 0
KernelStack == 4
Purposes == {Unknown, KernelStack}

----------------------------------------------------------------------------
(* Layout and constants of the program *)

\* bytes of one memory word (u32)
W == 4
\* mem::size_of::<BlockHeader>() on a 64-bit target
HeaderSize == 48
\* mem::size_of::<FreeBlock>(): two pointers
FreeBlockSize == 16
\* byte offsets of the BlockHeader fields (repr(C), 64-bit)
OffSize == 0
OffStatus == 8
OffMagic == 12
OffAllocId == 16
OffPurpose == 24
OffTimestamp == 32
OffChecksum == 40
OffPadding == 44
\* byte offsets of the FreeBlock fields
OffNext == 0
OffPrev == 8
\* BLOCK_MAGIC = 0xB10C4EA0 as a signed 32-bit value
BLOCK_MAGIC == -1324593504
\* checksum contribution of BlockStatus::Free, 0x12345678
FreeSum == 305419896
\* checksum contribution of BlockStatus::Allocated, 0x87654321 (signed)
AllocatedSum == -2023406815
\* discriminants of BlockStatus
Free == 0
Allocated == 1
\* the null pointer
NULL == 0
\* usize::MAX as a signed value
USIZE_MAX == -1
\* the alignment alloc(size) passes to alloc_aligned: align_of::<usize>()
ALIGN_OF_USIZE == 8
\* limits of init::alloc::init
MOD_MIN_HEAP == 65536
MOD_MAX_HEAP == 1073741824

min_block_size == HeaderSize + FreeBlockSize
min_heap_size == min_block_size * 2

IsPowerOfTwo(a) == a \in {1, 2, 4, 8, 16, 32, 64, 128, 256, 512, 1024, 2048, 4096}

\* u32 values are kept in signed two's-complement representation; their
\* wrapping sum is computed on 16-bit halves
Lo16(x) == x % 65536
Hi16(x) == x \div 65536
Join32(hi, lo) ==
    (((hi + (lo \div 65536) + 32768) % 65536) - 32768) * 65536 + (lo % 65536)

----------------------------------------------------------------------------
(* Memory *)

\* the element of a singleton set.  Only({ e : x \in {d} }) is e with x
\* standing for the value of d: d is computed once, before e
Only(S) == CHOOSE v \in S : TRUE

Rd(m, a) == IF a \in DOMAIN m THEN m[a] ELSE 0

\* m with the words of w written over it
Wr(m, w) == w @@ m

\* a usize/u64 field write: low word, high word
Wr64(m, a, v) == Wr(m, (a :> v) @@ ((a + W) :> 0))

\* the status byte of a header word
StatusOf(word) == IF word % 256 = Free THEN Free ELSE Allocated

HSize(m, h) == Rd(m, h + OffSize)
HStatus(m, h) == StatusOf(Rd(m, h + OffStatus))
HMagic(m, h) == Rd(m, h + OffMagic)
HAllocId(m, h) == Rd(m, h + OffAllocId)
HPurpose(m, h) == Rd(m, h + OffPurpose) % 256
HTimestamp(m, h) == Rd(m, h + OffTimestamp)
HChecksum(m, h) == Rd(m, h + OffChecksum)

\* the seven u32 values calculate_checksum adds with wrapping_add, starting
\* from 0: size, the status constant, magic, the halves of alloc_id and of
\* timestamp
calculate_checksum(m, h) ==
    Only({ Join32(Hi16(t[1]) + Hi16(t[2]) + Hi16(t[3]) + Hi16(t[4]) + Hi16(t[5])
                      + Hi16(t[6]) + Hi16(t[7]),
                  Lo16(t[1]) + Lo16(t[2]) + Lo16(t[3]) + Lo16(t[4]) + Lo16(t[5])
                      + Lo16(t[6]) + Lo16(t[7]))
         : t \in { << Rd(m, h + OffSize),
                      IF HStatus(m, h) = Free THEN FreeSum ELSE AllocatedSum,
                      HMagic(m, h),
                      Rd(m, h + OffAllocId), Rd(m, h + OffAllocId + W),
                      Rd(m, h + OffTimestamp), Rd(m, h + OffTimestamp + W) >> } })

validate(m, h) ==
    /\ HMagic(m, h) = BLOCK_MAGIC
    /\ ~(Rd(m, h + OffSize) = 0 /\ Rd(m, h + OffSize + W) = 0)
    /\ HChecksum(m, h) = calculate_checksum(m, h)

\* a variant of update_checksum that leaves the stored checksum as it is
update_checksum_skipped(m, h) == m

update_checksum(m, h) ==
    Only({ Wr(mm, (h + OffChecksum) :> calculate_checksum(mm, h)) : mm \in {m} })

total_size(m, h) == HSize(m, h) + HeaderSize

user_data_addr(h) == h + HeaderSize

\* BlockHeader::update_timestamp with the counter value ts
update_timestamp(m, h, ts) == update_checksum(Wr64(m, h + OffTimestamp, ts), h)

\* *h = BlockHeader::new(size, status), the counter value being ts: all 48
\* bytes of the struct are stored
WriteNewHeader(m, h, size, status, ts) ==
    LET img == (h + OffSize :> size) @@ (h + OffSize + W :> 0)
            @@ (h + OffStatus :> status) @@ (h + OffMagic :> BLOCK_MAGIC)
            @@ (h + OffAllocId :> 0) @@ (h + OffAllocId + W :> 0)
            @@ (h + OffPurpose :> 0) @@ (h + OffPurpose + W :> 0)
            @@ (h + OffTimestamp :> ts) @@ (h + OffTimestamp + W :> 0)
            @@ (h + OffChecksum :> 0) @@ (h + OffPadding :> 0)
    IN  update_checksum(Wr(m, img), h)

----------------------------------------------------------------------------
(* Free list: a pair [mem, head]; FreeBlock nodes live at header + 48 *)

get_header_from_free_block(fb) == fb - HeaderSize

FbNext(m, fb) == Rd(m, fb + OffNext)
FbPrev(m, fb) == Rd(m, fb + OffPrev)

remove_from_free_list(c, block) ==
    Only({ IF FbNext(c1.mem, block) # NULL
           THEN [mem |-> Wr64(c1.mem, FbNext(c1.mem, block) + OffPrev,
                              FbPrev(c1.mem, block)),
                 head |-> c1.head]
           ELSE c1
         : c1 \in { IF FbPrev(c.mem, block) # NULL
                    THEN [mem |-> Wr64(c.mem, FbPrev(c.mem, block) + OffNext,
                                       FbNext(c.mem, block)),
                          head |-> c.head]
                    ELSE [mem |-> c.mem, head |-> FbNext(c.mem, block)] } })

\* the node after which insert_into_free_list links a block at block_addr:
\* the loop of lines 348-350, with the number of written words as fuel
RECURSIVE InsertionPoint(_, _, _, _)
InsertionPoint(m, current, block_addr, fuel) ==
    IF fuel > 0 /\ FbNext(m, current) # NULL
       /\ get_header_from_free_block(FbNext(m, current)) < block_addr
    THEN InsertionPoint(m, FbNext(m, current), block_addr, fuel - 1)
    ELSE current

\* a variant of insert_into_free_list that links every block at the head
insert_into_free_list_at_head(c, block) ==
    Only({ [mem |-> IF c.head # NULL THEN Wr64(m2, c.head + OffPrev, block) ELSE m2,
            head |-> block]
         : m2 \in { Wr64(Wr64(c.mem, block + OffNext, c.head), block + OffPrev, NULL) } })

insert_into_free_list(c, block) ==
    LET block_addr == get_header_from_free_block(block)
        current == c.head
    IN  IF current = NULL \/ get_header_from_free_block(current) > block_addr
        THEN Only({ [mem |-> IF current # NULL
                             THEN Wr64(m2, current + OffPrev, block)
                             ELSE m2,
                     head |-> block]
                  : m2 \in { Wr64(Wr64(c.mem, block + OffNext, current),
                                  block + OffPrev, NULL) } })
        ELSE Only({ Only({ [mem |-> Wr64(IF FbNext(m2, cur) # NULL
                                         THEN Wr64(m2, FbNext(m2, cur) + OffPrev, block)
                                         ELSE m2,
                                         cur + OffNext, block),
                            head |-> c.head]
                         : m2 \in { Wr64(Wr64(c.mem, block + OffNext, FbNext(c.mem, cur)),
                                         block + OffPrev, cur) } })
                  : cur \in { InsertionPoint(c.mem, current, block_addr,
                                             Cardinality(DOMAIN c.mem)) } })

----------------------------------------------------------------------------
(* Statistics *)

AllocStats_new(total) ==
    [total_size |-> total, used_size |-> 0, free_size |-> total,
     alloc_count |-> 0, free_count |-> 0, total_allocs |-> 0, total_frees |-> 0,
     failed_allocs |-> 0, double_free_attempts |-> 0, corrupted_blocks |-> 0,
     max_alloc_size |-> 0, min_alloc_size |-> USIZE_MAX, avg_alloc_size |-> 0,
     merge_count |-> 0, split_count |-> 0, coalesce_count |-> 0,
     peak_used_size |-> 0, max_free_block_size |-> total,
     fragmentation_percent |-> 0]

Max(a, b) == IF a >= b THEN a ELSE b
Min(a, b) == IF a <= b THEN a ELSE b

\* usize values are kept as their signed reading: a negative number stands
\* for a value of 2^63 or more.  Comparison and maximum of two usize values,
\* and whether their sum exceeds usize::MAX (a build with overflow checks
\* panics on such a sum, a build without them continues with the wrapped
\* value, which is the sum of the signed readings)
UGe(a, b) == IF (a < 0) = (b < 0) THEN a >= b ELSE a < 0
UMax(a, b) == IF UGe(a, b) THEN a ELSE b
UAddOverflows(a, b) == (a < 0 /\ b < 0) \/ ((a < 0) # (b < 0) /\ a + b >= 0)

\* the subtractions are usize subtractions: a negative value here is the
\* signed reading of the wrapped result of a build without overflow checks
record_alloc(st, size) ==
    LET used == st.used_size + size
        cnt == st.alloc_count + 1
        tot == st.total_allocs + 1
    IN  [st EXCEPT !.used_size = used,
                   !.free_size = st.free_size - size,
                   !.alloc_count = cnt,
                   !.total_allocs = tot,
                   !.max_alloc_size = Max(st.max_alloc_size, size),
                   !.min_alloc_size = IF st.min_alloc_size = USIZE_MAX THEN size
                                      ELSE Min(st.min_alloc_size, size),
                   !.avg_alloc_size = IF tot > 0 THEN used \div cnt ELSE st.avg_alloc_size,
                   !.peak_used_size = Max(st.peak_used_size, used)]

\* a variant of record_dealloc that takes the header off used_size too
record_dealloc_counting_header(st, size) ==
    LET used == st.used_size - (size + HeaderSize)
        cnt == IF st.alloc_count > 0 THEN st.alloc_count - 1 ELSE 0
    IN  [st EXCEPT !.used_size = used,
                   !.free_size = st.free_size + size,
                   !.alloc_count = cnt,
                   !.total_frees = st.total_frees + 1,
                   !.avg_alloc_size = IF cnt > 0 THEN used \div cnt ELSE 0]

record_dealloc(st, size) ==
    LET used == st.used_size - size
        cnt == IF st.alloc_count > 0 THEN st.alloc_count - 1 ELSE 0
    IN  [st EXCEPT !.used_size = used,
                   !.free_size = st.free_size + size,
                   !.alloc_count = cnt,
                   !.total_frees = st.total_frees + 1,
                   !.avg_alloc_size = IF cnt > 0 THEN used \div cnt ELSE 0]

record_alloc_failure(st) == [st EXCEPT !.failed_allocs = st.failed_allocs + 1]

record_double_free(st) == [st EXCEPT !.double_free_attempts = st.double_free_attempts + 1]

record_corruption(st) == [st EXCEPT !.corrupted_blocks = st.corrupted_blocks + 1]

\* not in the sources: the counters named by the specification
record_merge(st) == [st EXCEPT !.merge_count = st.merge_count + 1]

record_split(st, size) == [st EXCEPT !.split_count = st.split_count + 1]

----------------------------------------------------------------------------
(* EarlyAllocator: the core.  Its state is the record                      *)
(* [mem, head, stats, next_alloc_id, clock]; heap bounds and the frozen    *)
(* flag are passed where they are read.                                     *)

\* a one-byte field write (status, purpose) keeps the other bytes of the word
WrByte(m, a, b) == Wr(m, a :> (Rd(m, a) - (Rd(m, a) % 256) + b))

\* a variant of calculate_aligned_addr that returns the address behind the
\* header as it is
calculate_aligned_addr_unrounded(block_addr, align) ==
    block_addr + HeaderSize

calculate_aligned_addr(block_addr, align) ==
    LET data_addr == block_addr + HeaderSize
    IN  ((data_addr + align - 1) \div align) * align

NotFound == [found |-> FALSE, header |-> NULL, user_addr |-> NULL]

\* the first-fit test of find_free_block on the block whose node is current
FitsBlock(m, current, size, align) ==
    LET header == get_header_from_free_block(current)
        block_size == HSize(m, header)
        user_addr == calculate_aligned_addr(header, align)
        required_space == user_addr - header + size
    IN  UGe(block_size, required_space)

\* whether the sum of line 302 exceeds usize::MAX for the block whose node
\* is current
FitOverflows(m, current, size, align) ==
    LET header == get_header_from_free_block(current)
    IN  UAddOverflows(calculate_aligned_addr(header, align) - header, size)

RECURSIVE FindFrom(_, _, _, _, _)
FindFrom(m, current, size, align, fuel) ==
    IF current = NULL \/ fuel = 0 THEN NotFound
    ELSE IF FitsBlock(m, current, size, align)
         THEN [found |-> TRUE, header |-> get_header_from_free_block(current),
               user_addr |-> calculate_aligned_addr(get_header_from_free_block(current), align)]
         ELSE FindFrom(m, FbNext(m, current), size, align, fuel - 1)

\* a variant of FindFrom that goes on to the end of the list and keeps the
\* last block that passes the test
RECURSIVE FindLastFrom(_, _, _, _, _)
FindLastFrom(m, current, size, align, fuel) ==
    IF current = NULL \/ fuel = 0 THEN NotFound
    ELSE Only({ IF rest.found THEN rest
                ELSE IF FitsBlock(m, current, size, align)
                     THEN [found |-> TRUE, header |-> get_header_from_free_block(current),
                           user_addr |-> calculate_aligned_addr(get_header_from_free_block(current), align)]
                     ELSE NotFound
              : rest \in { FindLastFrom(m, FbNext(m, current), size, align, fuel - 1) } })

\* a variant of find_free_block that takes the last fitting block
find_free_block_last_fit(k, size, align) ==
    FindLastFrom(k.mem, k.head, size, align, Cardinality(DOMAIN k.mem))

find_free_block(k, size, align) ==
    FindFrom(k.mem, k.head, size, align, Cardinality(DOMAIN k.mem))

\* whether alloc_aligned splits the chosen block (line 123)
SplitDecision(block_size, required_size) ==
    UGe(block_size, required_size + min_block_size)

\* status, alloc_id, timestamp and checksum of a header being allocated
\* (lines 131-135 and 151-155)
StampAllocated(m, h, id, ts) ==
    Only({ update_checksum(update_timestamp(m2, h, ts), h)
         : m2 \in { Wr64(WrByte(m, h + OffStatus, Allocated), h + OffAllocId, id) } })

\* the pointer alloc_aligned returns for a chosen block (line 160)
ReturnedPointer(f) == f.user_addr

\* a variant of AllocRefused that does not look at the frozen flag
AllocRefused_ignoring_frozen(frozen, size, align) ==
    size = 0 \/ ~IsPowerOfTwo(align)

\* a variant of AllocRefused that does not look at the size
AllocRefused_ignoring_size(frozen, size, align) ==
    frozen \/ ~IsPowerOfTwo(align)

\* the requests alloc_aligned refuses before it looks for a block
\* (lines 96-104)
AllocRefused(frozen, size, align) ==
    frozen \/ size = 0 \/ ~IsPowerOfTwo(align)

\* lines 123-149: the block at f.header, unlinked in c1, is cut at
\* required_size and the rest becomes a new free block
SplitBlock(k, f, c1, st1, required_size) ==
    LET block_addr == f.header
        new_free_block_addr == block_addr + required_size
        new_free_block_size == HSize(k.mem, block_addr) - required_size
        st2 == record_split(st1, new_free_block_size)
        st3 == [st2 EXCEPT
                  !.free_size = st2.free_size + new_free_block_size + HeaderSize,
                  !.free_count = st2.free_count + 1]
    IN  Only({ Only({ [mem |-> c2.mem, head |-> c2.head,
                       stats |-> record_alloc(st3, HSize(c2.mem, block_addr)),
                       next_alloc_id |-> k.next_alloc_id + 1,
                       clock |-> k.clock + 2,
                       ptr |-> ReturnedPointer(f)]
                    : c2 \in { insert_into_free_list(
                                   [mem |-> WriteNewHeader(m2, new_free_block_addr,
                                                           new_free_block_size, Free,
                                                           k.clock + 1),
                                    head |-> c1.head],
                                   new_free_block_addr + HeaderSize) } })
             : m2 \in { StampAllocated(
                            Wr64(c1.mem, block_addr + OffSize, required_size - HeaderSize),
                            block_addr, k.next_alloc_id, k.clock) } })

\* lines 150-157: the whole block at f.header, unlinked in c1, is handed out
WholeBlock(k, f, c1, st1) ==
    Only({ [mem |-> m2, head |-> c1.head,
            stats |-> record_alloc(st1, HSize(m2, f.header)),
            next_alloc_id |-> k.next_alloc_id + 1,
            clock |-> k.clock + 1,
            ptr |-> ReturnedPointer(f)]
         : m2 \in { StampAllocated(c1.mem, f.header, k.next_alloc_id, k.clock) } })

\* lines 117-118: the statistics once the block found has left the free
\* list (usize subtractions, see record_alloc)
UnlinkedStats(st, block_size) ==
    [st EXCEPT !.free_size = st.free_size - (block_size + HeaderSize),
               !.free_count = st.free_count - 1]

\* lines 111-160: the block found is unlinked, then split or taken whole
TakeBlock(k, f, alloc_size) ==
    LET block_addr == f.header
        block_size == HSize(k.mem, block_addr)
        st1 == UnlinkedStats(k.stats, block_size)
        required_size == f.user_addr - block_addr + alloc_size
    IN  Only({ IF SplitDecision(block_size, required_size)
               THEN SplitBlock(k, f, c1, st1, required_size)
               ELSE WholeBlock(k, f, c1, st1)
             : c1 \in { remove_from_free_list([mem |-> k.mem, head |-> k.head],
                                              block_addr + HeaderSize) } })

alloc_aligned(k, frozen, size, align) ==
    IF AllocRefused(frozen, size, align)
    THEN [k EXCEPT !.stats = record_alloc_failure(k.stats)] @@ [ptr |-> NULL]
    ELSE Only({ IF f.found
                THEN TakeBlock(k, f, UMax(size, FreeBlockSize))
                ELSE [k EXCEPT !.stats = record_alloc_failure(k.stats)]
                     @@ [ptr |-> NULL]
              : f \in { find_free_block(k, UMax(size, FreeBlockSize), align) } })

\* a variant of MergedSize that forgets the absorbed block's header
MergedSize_without_header(m, header, absorbed) ==
    HSize(m, header) + HSize(m, absorbed)

\* the payload size of a block that absorbs its neighbour (lines 374, 389)
MergedSize(m, header, absorbed) ==
    HSize(m, header) + total_size(m, absorbed)

\* merge with the address successor (lines 367-380)
CoalesceNext(x, heap_end, header) ==
    LET next_header_addr == header + total_size(x.mem, header)
    IN  IF next_header_addr < heap_end /\ HStatus(x.mem, next_header_addr) = Free
        THEN Only({ [mem |-> update_checksum(
                                 Wr64(c1.mem, header + OffSize,
                                      MergedSize(c1.mem, header, next_header_addr)),
                                 header),
                     head |-> c1.head,
                     stats |-> [record_merge(x.stats) EXCEPT
                                  !.free_count = @ - 1]]
                  : c1 \in { remove_from_free_list([mem |-> x.mem, head |-> x.head],
                                                   next_header_addr + HeaderSize) } })
        ELSE x

\* merge into the free-list predecessor (lines 383-395)
CoalescePrev(x, block) ==
    LET header == get_header_from_free_block(block)
        prev_block == FbPrev(x.mem, block)
        prev_header == get_header_from_free_block(prev_block)
    IN  IF prev_block # NULL /\ prev_header + total_size(x.mem, prev_header) = header
        THEN Only({ [mem |-> update_checksum(
                                 Wr64(c1.mem, prev_header + OffSize,
                                      MergedSize(c1.mem, prev_header, header)),
                                 prev_header),
                     head |-> c1.head,
                     stats |-> [record_merge(x.stats) EXCEPT
                                  !.free_count = @ - 1]]
                  : c1 \in { remove_from_free_list([mem |-> x.mem, head |-> x.head],
                                                   block) } })
        ELSE x

\* a variant of coalesce that merges with the successor only
coalesce_next_only(x, heap_end, block) ==
    CoalesceNext(x, heap_end, get_header_from_free_block(block))

\* x is [mem, head, stats]
coalesce(x, heap_end, block) ==
    Only({ CoalescePrev(y, block)
         : y \in { CoalesceNext(x, heap_end, get_header_from_free_block(block)) } })

\* the range test of dealloc (line 173)
OutOfHeap(user_ptr, heap_start, heap_end) ==
    user_ptr < heap_start \/ user_ptr > heap_end

\* the header dealloc and set_purpose inspect for a user pointer
HeaderOf(user_ptr) == user_ptr - HeaderSize

\* a variant of dealloc_result without the test for an already-Free header
dealloc_result_without_free_test(m, frozen, heap_start, heap_end, ptr) ==
    IF frozen THEN "AllocatorFrozen"
    ELSE IF OutOfHeap(ptr, heap_start, heap_end) THEN "InvalidPointer"
    ELSE IF ~validate(m, HeaderOf(ptr)) THEN "CorruptedHeader"
    ELSE "Ok"

\* the outcome of EarlyAllocator::dealloc, before any state change
dealloc_result(m, frozen, heap_start, heap_end, ptr) ==
    IF frozen THEN "AllocatorFrozen"
    ELSE IF OutOfHeap(ptr, heap_start, heap_end) THEN "InvalidPointer"
    ELSE IF ~validate(m, HeaderOf(ptr)) THEN "CorruptedHeader"
    ELSE IF HStatus(m, HeaderOf(ptr)) = Free THEN "DoubleFree"
    ELSE "Ok"

\* lines 189-204 of dealloc: the block is marked Free, linked and coalesced
ReleaseBlock(k, heap_end, ptr) ==
    LET header_ptr == HeaderOf(ptr)
        block_size == HSize(k.mem, header_ptr)
        st1 == record_dealloc(k.stats, block_size)
        st2 == [st1 EXCEPT
                  !.free_size = st1.free_size + block_size + HeaderSize,
                  !.free_count = st1.free_count + 1]
    IN  Only({ Only({ Only({ [mem |-> x.mem, head |-> x.head, stats |-> x.stats,
                              next_alloc_id |-> k.next_alloc_id,
                              clock |-> k.clock + 1]
                           : x \in { coalesce([mem |-> c1.mem, head |-> c1.head,
                                               stats |-> st2],
                                              heap_end, ptr) } })
                    : c1 \in { insert_into_free_list([mem |-> m3, head |-> k.head],
                                                     ptr) } })
             : m3 \in { update_checksum(
                            update_timestamp(WrByte(k.mem, header_ptr + OffStatus, Free),
                                             header_ptr, k.clock),
                            header_ptr) } })

dealloc(k, frozen, heap_start, heap_end, ptr) ==
    Only({ CASE r = "CorruptedHeader" ->
                  [k EXCEPT !.stats = record_corruption(k.stats)] @@ [res |-> r]
             [] r = "DoubleFree" ->
                  [k EXCEPT !.stats = record_double_free(k.stats)] @@ [res |-> r]
             [] r = "Ok" -> ReleaseBlock(k, heap_end, ptr) @@ [res |-> r]
             [] OTHER -> k @@ [res |-> r]
         : r \in { dealloc_result(k.mem, frozen, heap_start, heap_end, ptr) } })

\* the outcome of EarlyAllocator::set_purpose
set_purpose_result(m, ptr) ==
    IF ~validate(m, HeaderOf(ptr)) THEN "CorruptedHeader"
    ELSE IF HStatus(m, HeaderOf(ptr)) # Allocated THEN "InvalidPointer"
    ELSE "Ok"

\* a variant of set_purpose that stores the purpose before it has looked
\* at the header
set_purpose_before_validation(m, ptr, purpose) ==
    update_checksum(WrByte(m, HeaderOf(ptr) + OffPurpose, purpose), HeaderOf(ptr))

set_purpose(m, ptr, purpose) ==
    IF set_purpose_result(m, ptr) = "Ok"
    THEN update_checksum(WrByte(m, HeaderOf(ptr) + OffPurpose, purpose), HeaderOf(ptr))
    ELSE m

RECURSIVE IntegrityFrom(_, _, _, _)
IntegrityFrom(m, current_addr, heap_end, fuel) ==
    IF current_addr >= heap_end \/ fuel = 0
    THEN IF current_addr # heap_end THEN "InternalError" ELSE "Ok"
    ELSE IF ~validate(m, current_addr) THEN "CorruptedHeader"
         ELSE IntegrityFrom(m, current_addr + total_size(m, current_addr), heap_end, fuel - 1)

integrity_check(m, heap_start, heap_end) ==
    IntegrityFrom(m, heap_start, heap_end, heap_end - heap_start)

----------------------------------------------------------------------------
(* Handover package: HandoverInfo, built by EarlyAllocator::prepare_handover *)

MAX_TRACKED_BLOCKS == 512
HANDOVER_PROTOCOL_VERSION == 1
\* HANDOVER_MAGIC: u64 = 0x48414E444F564552, as its two u32 halves
HANDOVER_MAGIC_LO == 1331053906
HANDOVER_MAGIC_HI == 1212239428
\* MemoryPermissions::READ_WRITE.bits
READ_WRITE == 3
\* the alignment prepare_handover records for every block
SNAPSHOT_ALIGNMENT == 8
\* the number of leading snapshots calculate_checksum covers
CHECKSUMMED_BLOCKS == 16

\* t[lo] + ... + t[hi], added up by halves to keep the evaluation flat
RECURSIVE SumOver(_, _, _)
SumOver(t, lo, hi) ==
    IF lo > hi THEN 0
    ELSE IF lo = hi THEN t[lo]
    ELSE SumOver(t, lo, (lo + hi) \div 2) + SumOver(t, ((lo + hi) \div 2) + 1, hi)

SumTo(t, i) == SumOver(t, 1, i)

\* the wrapping u32 sum of the values of the sequence t
WrappingSum(t) ==
    Join32(SumTo([i \in 1..Len(t) |-> Hi16(t[i])], Len(t)),
           SumTo([i \in 1..Len(t) |-> Lo16(t[i])], Len(t)))

\* HandoverInfo::calculate_checksum: the header fields, then addr, size and
\* alloc_id of the first min(allocated_count, 16) snapshots
handover_calculate_checksum(info) ==
    LET n == Min(info.allocated_count, CHECKSUMMED_BLOCKS)
        head == << info.version, info.magic_lo, info.magic_hi, info.heap_start,
                   info.heap_end, info.allocated_count >>
        blocks == [j \in 1..(3 * n) |->
                     LET b == info.allocated_blocks[((j - 1) \div 3) + 1]
                     IN  CASE j % 3 = 1 -> b.addr
                           [] j % 3 = 2 -> b.size
                           [] OTHER -> b.alloc_id]
    IN  WrappingSum(head \o blocks)

handover_update_checksum(info) ==
    [info EXCEPT !.checksum = handover_calculate_checksum(info)]

\* HandoverInfo::new(heap_start, heap_end, stats), the counter value being
\* ts.  allocated_blocks holds the first allocated_count entries of the
\* array; the entries behind them keep the values written here
HandoverInfo_new(start, end, st, ts) ==
    handover_update_checksum(
        [version |-> HANDOVER_PROTOCOL_VERSION,
         magic_lo |-> HANDOVER_MAGIC_LO, magic_hi |-> HANDOVER_MAGIC_HI,
         heap_start |-> start, heap_end |-> end,
         allocated_blocks |-> <<>>, allocated_count |-> 0,
         statistics |-> st,
         allocator_state |-> [frozen |-> FALSE, integrity_ok |-> TRUE],
         handover_timestamp |-> ts,
         checksum |-> 0])

\* a variant of Snapshot that records the address of the header
Snapshot_of_header(m, h) ==
    [addr |-> h, size |-> HSize(m, h), purpose |-> HPurpose(m, h),
     alloc_id |-> HAllocId(m, h), timestamp |-> HTimestamp(m, h),
     permissions |-> READ_WRITE, alignment |-> SNAPSHOT_ALIGNMENT]

\* the AllocatedBlock prepare_handover records for the header h
Snapshot(m, h) ==
    [addr |-> user_data_addr(h), size |-> HSize(m, h), purpose |-> HPurpose(m, h),
     alloc_id |-> HAllocId(m, h), timestamp |-> HTimestamp(m, h),
     permissions |-> READ_WRITE, alignment |-> SNAPSHOT_ALIGNMENT]

\* the header walk of prepare_handover over at most n blocks from addr: the
\* address it stops at and the snapshots of the Allocated blocks it passed,
\* in address order.  The walk is cut in halves to keep the evaluation flat
RECURSIVE Census(_, _, _, _)
Census(m, addr, end, n) ==
    IF addr >= end \/ n = 0 THEN [at |-> addr, found |-> <<>>]
    ELSE IF n = 1
    THEN [at |-> addr + total_size(m, addr),
          found |-> IF HStatus(m, addr) = Allocated THEN << Snapshot(m, addr) >>
                    ELSE <<>>]
    ELSE Only({ Only({ [at |-> right.at, found |-> left.found \o right.found]
                       : right \in { Census(m, left.at, end, n - (n \div 2)) } })
                : left \in { Census(m, addr, end, n \div 2) } })

\* the HandoverInfo EarlyAllocator::prepare_handover has built when it
\* reaches EarlyBox::new (line 264).  The loop stops at the first Allocated
\* block it meets with the array full: the array holds the first
\* MAX_TRACKED_BLOCKS Allocated blocks of the walk
prepare_handover_info(m, start, end, st, ts) ==
    Only({ handover_update_checksum(
               [HandoverInfo_new(start, end - start, st, ts) EXCEPT
                   !.allocated_blocks = SubSeq(all, 1, Min(Len(all), MAX_TRACKED_BLOCKS)),
                   !.allocated_count = Min(Len(all), MAX_TRACKED_BLOCKS)])
           : all \in { Census(m, start, end, ((end - start) \div HeaderSize) + 1).found } })

\* AllocatedBlock::end_addr
end_addr(b) == b.addr + b.size

\* AllocatedBlock::overlaps_with
overlaps_with(b1, b2) == b1.addr < end_addr(b2) /\ b2.addr < end_addr(b1)

\* HandoverInfo::allocated_size
allocated_size(info) ==
    SumTo([i \in 1..info.allocated_count |-> info.allocated_blocks[i].size],
          info.allocated_count)

\* HandoverInfo::validate: "Ok" or the message of the error it returns
handover_validate(info) ==
    IF info.magic_lo # HANDOVER_MAGIC_LO \/ info.magic_hi # HANDOVER_MAGIC_HI
    THEN "Invalid handover magic"
    ELSE IF info.version # HANDOVER_PROTOCOL_VERSION THEN "Unsupported protocol version"
    ELSE IF info.heap_start >= info.heap_end THEN "Invalid heap range"
    ELSE IF info.allocated_count > MAX_TRACKED_BLOCKS THEN "Too many allocated blocks"
    ELSE IF info.checksum # handover_calculate_checksum(info)
    THEN "Checksum validation failed"
    ELSE IF \E i \in 1..info.allocated_count :
               \/ info.allocated_blocks[i].addr < info.heap_start
               \/ end_addr(info.allocated_blocks[i]) > info.heap_end
    THEN "Block outside heap range"
    ELSE IF \E i, j \in 1..info.allocated_count :
               i < j /\ overlaps_with(info.allocated_blocks[i], info.allocated_blocks[j])
    THEN "Overlapping blocks detected"
    ELSE IF allocated_size(info) # info.statistics.used_size THEN "Statistics mismatch"
    ELSE "Ok"

----------------------------------------------------------------------------
(* State *)

VARIABLES
    mem,              \* memory words that were written: address -> u32
    initialized,      \* ThreadSafeEarlyAllocator.allocator is Some
    heap_start, heap_end, free_list_head, stats, frozen, next_alloc_id,
    clock,            \* COUNTER of metadata::get_timestamp
    MOD_INITIALIZED,  \* init::alloc::INITIALIZED (static)
    MOD_ENABLED,      \* init::alloc::ENABLED (static)
    lock,             \* the spin::Mutex: "free", or "stuck" once a holder
                      \* spins on it itself
    live,             \* history: allocations returned and not freed by their
                      \* owner, [ptr, size, id]
    freed,            \* history: pointers released by an Ok dealloc and not
                      \* returned again since
    frozen_by,        \* history: the api of the first freeze call that
                      \* returned Ok, "none" before it
    pc,               \* per caller of the wrapper: "idle", "waiting" for the
                      \* lock, "inside" the critical section, or "respin"
                      \* (spinning on the lock it holds itself)
    req,              \* per caller: the call in progress, [op, a, b]
    budget,           \* the number of timestamp ticks explored (a bound)
    ring_buffer,      \* a RingBuffer: [buffer, capacity, head, tail, count]
    fifo              \* history: the elements pushed to ring_buffer and
                      \* neither popped, cleared nor pushed out since, oldest
                      \* first

vars == <<mem, initialized, heap_start, heap_end, free_list_head, stats, frozen,
          next_alloc_id, clock, MOD_INITIALIZED, MOD_ENABLED, lock, live, freed,
          frozen_by, pc, req, budget, ring_buffer, fifo>>

core == <<mem, heap_start, heap_end, free_list_head, stats, frozen, next_alloc_id,
          clock>>

\* heap start addresses offered to init: null, 16-byte aligned, misaligned
AlignedStart == 16 * W
MisalignedStart == AlignedStart + W
Starts == {NULL, AlignedStart, MisalignedStart}
\* heap sizes offered to init: below min_heap_size, the small heap, 64 KiB
SmallHeap == HeapWords * W
HeapSizes == {min_block_size, SmallHeap, MOD_MIN_HEAP}

K == [mem |-> mem, head |-> free_list_head, stats |-> stats,
      next_alloc_id |-> next_alloc_id, clock |-> clock]

\* the allocator a call leaves, without the value the call returned
CoreOf(r) ==
    [mem |-> r.mem, head |-> r.head, stats |-> r.stats,
     next_alloc_id |-> r.next_alloc_id, clock |-> r.clock]

\* the callers that share GLOBAL_EARLY_ALLOCATOR
Callers == {"c1", "c2"}

\* no call in progress
NoRequest == [op |-> "none", a |-> 0, b |-> 0]

\* Option::None in a slot of a RingBuffer and as the result of pop; the
\* elements are positive numbers
NoItem == 0

\* no RingBuffer has been made
NoRing == [buffer |-> <<>>, capacity |-> 0, head |-> 0, tail |-> 0, count |-> 0]

\* before any init call: no allocator, nothing written
Unconstructed ==
    /\ ring_buffer = NoRing
    /\ fifo = <<>>
    /\ mem = <<>>
    /\ initialized = FALSE
    /\ heap_start = 0 /\ heap_end = 0 /\ free_list_head = NULL
    /\ stats = AllocStats_new(0)
    /\ frozen = FALSE
    /\ next_alloc_id = 0
    /\ clock = 0
    /\ MOD_INITIALIZED = FALSE
    /\ MOD_ENABLED = TRUE
    /\ lock = "free"
    /\ live = {}
    /\ freed = {}
    /\ frozen_by = "none"
    /\ pc = [c \in Callers |-> "idle"]
    /\ req = [c \in Callers |-> NoRequest]

Init ==
    /\ Unconstructed
    /\ budget = MaxClock

----------------------------------------------------------------------------
(* init *)

\* EarlyAllocator::new
EarlyAllocator_new_result(start, size) ==
    IF start = 0 \/ size < min_heap_size THEN "InvalidParameter" ELSE "Ok"

\* a variant of ThreadSafe_init_result that builds a new allocator over an
\* existing one
ThreadSafe_init_result_again(start, size) ==
    EarlyAllocator_new_result(start, size)

\* ThreadSafeEarlyAllocator::init
ThreadSafe_init_result(start, size) ==
    IF initialized THEN "AlreadyInitialized" ELSE EarlyAllocator_new_result(start, size)

\* the memory a successful EarlyAllocator::new leaves: the initial header
\* and its FreeBlock node
FreshHeapMem(m, ts, start, size) ==
    LET m1 == WriteNewHeader(m, start, size - HeaderSize, Free, ts)
    IN  Wr64(Wr64(m1, start + HeaderSize + OffNext, NULL),
             start + HeaderSize + OffPrev, NULL)

NewHeapMem(start, size) == FreshHeapMem(mem, clock, start, size)

\* the statistics a successful EarlyAllocator::new seeds
NewHeapStats(size) ==
    [AllocStats_new(size) EXCEPT !.free_size = size,
                                 !.free_count = 1,
                                 !.max_free_block_size = size]

\* the state a successful EarlyAllocator::new builds
InstallHeap(start, size) ==
    /\ clock + 1 <= budget
    /\ mem' = NewHeapMem(start, size)
    /\ clock' = clock + 1
    /\ heap_start' = start
    /\ heap_end' = start + size
    /\ free_list_head' = start + HeaderSize
    /\ stats' = NewHeapStats(size)
    /\ frozen' = FALSE
    /\ next_alloc_id' = 1
    /\ initialized' = TRUE

RawInit(start, size) ==
    /\ lock = "free"
    /\ IF ThreadSafe_init_result(start, size) = "Ok"
       THEN InstallHeap(start, size)
       ELSE UNCHANGED <<core, initialized>>
    /\ UNCHANGED <<MOD_INITIALIZED, MOD_ENABLED, lock, live, freed, frozen_by, pc, req, budget, ring_buffer, fifo>>

\* the argument checks of init::alloc::init, before the allocator is touched
ModInitCheck(start, size) ==
    IF MOD_INITIALIZED THEN "AlreadyInitialized"
    ELSE IF start = 0 THEN "InvalidParameter"
    ELSE IF size < MOD_MIN_HEAP THEN "InvalidParameter"
    ELSE IF size > MOD_MAX_HEAP THEN "InvalidParameter"
    ELSE IF start % 16 # 0 THEN "InvalidAlignment"
    ELSE "Ok"

\* init::alloc::init
ModInitResult(start, size) ==
    IF ModInitCheck(start, size) # "Ok" THEN ModInitCheck(start, size)
    ELSE IF ThreadSafe_init_result(start, size) # "Ok"
         THEN ThreadSafe_init_result(start, size)
         ELSE integrity_check(NewHeapMem(start, size), start, start + size)

ModInit(start, size) ==
    /\ ModInitCheck(start, size) = "Ok" => lock = "free"
    /\ IF ModInitCheck(start, size) = "Ok" /\ ThreadSafe_init_result(start, size) = "Ok"
       THEN InstallHeap(start, size) /\ MOD_INITIALIZED' = TRUE
       ELSE UNCHANGED <<core, initialized, MOD_INITIALIZED>>
    /\ UNCHANGED <<MOD_ENABLED, lock, live, freed, frozen_by, pc, req, budget, ring_buffer, fifo>>

----------------------------------------------------------------------------
(* alloc, dealloc, set_purpose through the wrapper ("raw":                 *)
(* ThreadSafeEarlyAllocator / GLOBAL_EARLY_ALLOCATOR) and through the      *)
(* module functions of init::alloc ("mod")                                 *)

Apis == {"raw", "mod"}

\* the failing calls the statistics have counted
Errors(st) == st.failed_allocs + st.double_free_attempts + st.corrupted_blocks

\* init::alloc::alloc_aligned answers None before it reaches the allocator
ModAllocGate(size, align) ==
    ~MOD_INITIALIZED \/ ~MOD_ENABLED \/ size = 0 \/ ~IsPowerOfTwo(align)

\* whether the call gets to EarlyAllocator::alloc_aligned
AllocReachesCore(api, size, align) ==
    /\ api = "mod" => ~ModAllocGate(size, align)
    /\ initialized

\* an alloc call on the allocator k: the allocator it leaves and the
\* pointer it returns (NULL: None)
AllocCall(k, api, size, align) ==
    IF AllocReachesCore(api, size, align)
    THEN alloc_aligned(k, frozen, size, align)
    ELSE k @@ [ptr |-> NULL]

\* the pointer an alloc call returns in the current state
AllocResult(api, size, align) == AllocCall(K, api, size, align).ptr

Alloc(api, size, align) ==
    /\ (api = "raw" \/ ~ModAllocGate(size, align)) => lock = "free"
    /\ \E r \in {AllocCall(K, api, size, align)} :
          /\ r.clock <= budget
          /\ Errors(r.stats) <= MaxErr
          /\ mem' = r.mem
          /\ free_list_head' = r.head
          /\ stats' = r.stats
          /\ next_alloc_id' = r.next_alloc_id
          /\ clock' = r.clock
          /\ live' = IF r.ptr # NULL
                     THEN live \cup {[ptr |-> r.ptr, size |-> size, id |-> next_alloc_id]}
                     ELSE live
          /\ freed' = IF r.ptr # NULL THEN freed \ {r.ptr} ELSE freed
    /\ UNCHANGED <<initialized, heap_start, heap_end, frozen, MOD_INITIALIZED,
                   MOD_ENABLED, lock, frozen_by, pc, req, budget, ring_buffer, fifo>>

\* what init::alloc::dealloc_safe answers before it reaches the allocator
ModPtrGate(ptr) ==
    IF ~MOD_INITIALIZED THEN "NotInitialized"
    ELSE IF ptr = NULL THEN "NullPointer"
    ELSE "Ok"

\* a dealloc call on the allocator k: the allocator it leaves and its
\* result
DeallocCall(k, api, ptr) ==
    IF api = "mod" /\ ModPtrGate(ptr) # "Ok" THEN k @@ [res |-> ModPtrGate(ptr)]
    ELSE IF ~initialized THEN k @@ [res |-> "NotInitialized"]
    ELSE dealloc(k, frozen, heap_start, heap_end, ptr)

\* the result of a dealloc call in the current state
DeallocResult(api, ptr) == DeallocCall(K, api, ptr).res

\* ThreadSafeEarlyAllocator::dealloc takes a NonNull pointer
Dealloc(api, ptr) ==
    /\ api = "raw" => ptr # NULL
    /\ (api = "raw" \/ ModPtrGate(ptr) = "Ok") => lock = "free"
    /\ \E r \in {DeallocCall(K, api, ptr)} :
          /\ r.clock <= budget
          /\ Errors(r.stats) <= MaxErr
          /\ mem' = r.mem
          /\ free_list_head' = r.head
          /\ stats' = r.stats
          /\ clock' = r.clock
          /\ live' = IF r.res = "Ok" THEN {a \in live : a.ptr # ptr} ELSE live
          /\ freed' = IF r.res = "Ok" THEN freed \cup {ptr} ELSE freed
          /\ UNCHANGED next_alloc_id
    /\ UNCHANGED <<initialized, heap_start, heap_end, frozen, MOD_INITIALIZED,
                   MOD_ENABLED, lock, frozen_by, pc, req, budget, ring_buffer, fifo>>

\* a set_purpose call on the memory m: the memory it leaves and its result.
\* init::alloc::set_purpose returns Ok without touching the allocator;
\* ThreadSafeEarlyAllocator::set_purpose reaches the core
SetPurposeCall(m, api, ptr, purpose) ==
    IF api = "mod"
    THEN [mem |-> m, res |-> IF ~MOD_INITIALIZED THEN "NotInitialized" ELSE "Ok"]
    ELSE IF ~initialized THEN [mem |-> m, res |-> "NotInitialized"]
    ELSE [mem |-> set_purpose(m, ptr, purpose), res |-> set_purpose_result(m, ptr)]

\* the result of a set_purpose call in the current state
SetPurposeResult(api, ptr) == SetPurposeCall(mem, api, ptr, Unknown).res

SetPurpose(api, ptr, purpose) ==
    /\ ptr # NULL
    /\ api = "raw" => lock = "free"
    /\ mem' = SetPurposeCall(mem, api, ptr, purpose).mem
    /\ UNCHANGED <<initialized, heap_start, heap_end, free_list_head, stats, frozen,
                   next_alloc_id, clock, MOD_INITIALIZED, MOD_ENABLED, lock, live,
                   freed, frozen_by, pc, req, budget, ring_buffer, fifo>>

----------------------------------------------------------------------------
(* freeze, enable, disable, integrity_check, prepare_handover *)

\* the value EarlyAllocator::freeze stores in frozen
freeze_value == TRUE

FreezeResult(api) ==
    IF (api = "mod" /\ ~MOD_INITIALIZED) \/ ~initialized THEN "NotInitialized" ELSE "Ok"

\* init::alloc::freeze also disables the module
Freeze(api) ==
    /\ (api = "raw" \/ MOD_INITIALIZED) => lock = "free"
    /\ IF FreezeResult(api) = "Ok"
       THEN /\ frozen' = freeze_value
            /\ MOD_ENABLED' = IF api = "mod" THEN FALSE ELSE MOD_ENABLED
            /\ frozen_by' = IF frozen_by = "none" THEN api ELSE frozen_by
       ELSE UNCHANGED <<frozen, MOD_ENABLED, frozen_by>>
    /\ UNCHANGED <<mem, initialized, heap_start, heap_end, free_list_head, stats,
                   next_alloc_id, clock, MOD_INITIALIZED, lock, live, freed, pc, req, budget, ring_buffer, fifo>>

Enable ==
    /\ MOD_ENABLED' = TRUE
    /\ UNCHANGED <<core, initialized, MOD_INITIALIZED, lock, live, freed, frozen_by, pc, req, budget, ring_buffer, fifo>>

Disable ==
    /\ MOD_ENABLED' = FALSE
    /\ UNCHANGED <<core, initialized, MOD_INITIALIZED, lock, live, freed, frozen_by, pc, req, budget, ring_buffer, fifo>>

\* the result of an integrity_check call in the current state
IntegrityResult(api) ==
    IF (api = "mod" /\ ~MOD_INITIALIZED) \/ ~initialized
    THEN "NotInitialized"
    ELSE integrity_check(mem, heap_start, heap_end)

\* a read-only call: it takes and releases the lock
IntegrityCheck(api) ==
    /\ (api = "raw" \/ MOD_INITIALIZED) => lock = "free"
    /\ UNCHANGED vars

\* ThreadSafeEarlyAllocator::prepare_handover holds the lock while
\* EarlyAllocator::prepare_handover ends in EarlyBox::new, which allocates
\* through GLOBAL_EARLY_ALLOCATOR and so takes the same lock again: on an
\* initialized allocator the call spins on the lock it holds
PrepareHandoverReachesCore(api) ==
    (api = "mod" => MOD_INITIALIZED) /\ initialized

\* what the caller of prepare_handover gets: None without an allocator,
\* and no return at all with one
PrepareHandoverResult(api) ==
    IF PrepareHandoverReachesCore(api) THEN "NeverReturns" ELSE "None"

PrepareHandover(api) ==
    /\ (api = "raw" \/ MOD_INITIALIZED) => lock = "free"
    /\ IF PrepareHandoverReachesCore(api)
       THEN /\ clock' = clock + 1
            /\ lock' = "stuck"
       ELSE UNCHANGED <<clock, lock>>
    /\ UNCHANGED <<mem, heap_start, heap_end, free_list_head, stats, frozen,
                   next_alloc_id, initialized, MOD_INITIALIZED, MOD_ENABLED, live,
                   freed, frozen_by, pc, req, budget, ring_buffer, fifo>>

----------------------------------------------------------------------------
(* Pointers callers pass to dealloc and set_purpose: the ones alloc handed  *)
(* out (live or already freed), null, the end of the heap and the word     *)
(* after it                                                                 *)
PtrInputs ==
    {a.ptr : a \in live} \cup freed \cup {NULL, heap_end, heap_end + W}

Next ==
    \/ \E s \in Starts, z \in HeapSizes \ {MOD_MIN_HEAP} : RawInit(s, z)
    \/ \E s \in Starts, z \in HeapSizes \ {min_block_size} : ModInit(s, z)
    \/ \E api \in Apis, z \in ReqSizes, a \in ReqAligns : Alloc(api, z, a)
    \/ \E api \in Apis, p \in PtrInputs : Dealloc(api, p)
    \/ \E api \in Apis, p \in PtrInputs, u \in Purposes : SetPurpose(api, p, u)
    \/ \E api \in Apis : Freeze(api)
    \/ Enable
    \/ Disable
    \/ \E api \in Apis : IntegrityCheck(api)
    \/ \E api \in Apis : PrepareHandover(api)

Spec == Init /\ [][Next]_vars

----------------------------------------------------------------------------
(* The core alone, explored deeper: one small heap, alloc and dealloc      *)
(* through the wrapper with valid sizes and alignments                      *)

CoreSizes == {16, 20}
CoreAligns == {4, 8}

InitCore ==
    /\ Unconstructed
    /\ budget = CoreClock

NextCore ==
    \/ RawInit(AlignedStart, SmallHeap)
    \/ \E z \in CoreSizes, a \in CoreAligns : Alloc("raw", z, a)
    \/ \E p \in PtrInputs \ {NULL} : Dealloc("raw", p)

SpecCore == InitCore /\ [][NextCore]_vars

----------------------------------------------------------------------------
(* The census of a heap with more Allocated blocks than a HandoverInfo     *)
(* holds: one 64 KiB heap filled by allocations of one size, and           *)
(* prepare_handover                                                         *)

CensusSize == 16

\* the allocator EarlyAllocator::new(AlignedStart, MOD_MIN_HEAP) builds, with
\* the record of the allocations made on it
CensusFresh ==
    [k |-> [mem |-> FreshHeapMem(<<>>, 0, AlignedStart, MOD_MIN_HEAP),
            head |-> AlignedStart + HeaderSize,
            stats |-> NewHeapStats(MOD_MIN_HEAP),
            next_alloc_id |-> 1, clock |-> 1],
     live |-> {}]

\* x after n more calls alloc_aligned(CensusSize, ALIGN_OF_USIZE)
RECURSIVE Filled(_, _)
Filled(x, n) ==
    IF n = 0 THEN x
    ELSE IF n = 1
    THEN Only({ [k |-> CoreOf(r),
                 live |-> x.live \cup {[ptr |-> r.ptr, size |-> CensusSize,
                                        id |-> x.k.next_alloc_id]}]
                : r \in { alloc_aligned(x.k, FALSE, CensusSize, ALIGN_OF_USIZE) } })
    ELSE Only({ Filled(y, n - (n \div 2)) : y \in { Filled(x, n \div 2) } })

\* the heap after init and CensusPrefill allocations
InitCensus ==
    \E x \in { Filled(CensusFresh, CensusPrefill) } :
        /\ mem = x.k.mem
        /\ initialized = TRUE
        /\ heap_start = AlignedStart /\ heap_end = AlignedStart + MOD_MIN_HEAP
        /\ free_list_head = x.k.head
        /\ stats = x.k.stats
        /\ frozen = FALSE
        /\ next_alloc_id = x.k.next_alloc_id
        /\ clock = x.k.clock
        /\ MOD_INITIALIZED = FALSE
        /\ MOD_ENABLED = TRUE
        /\ lock = "free"
        /\ live = x.live
        /\ freed = {}
        /\ frozen_by = "none"
            /\ pc = [c \in Callers |-> "idle"]
        /\ req = [c \in Callers |-> NoRequest]
        /\ budget = x.k.clock + 2 * CensusExtra
        /\ ring_buffer = NoRing
        /\ fifo = <<>>

NextCensus ==
    \/ Alloc("raw", CensusSize, ALIGN_OF_USIZE)
    \/ PrepareHandover("raw")

SpecCensus == InitCensus /\ [][NextCensus]_vars

----------------------------------------------------------------------------
(* The free list with several nodes: a heap of ListBlocks smallest blocks, *)
(* allocations of one size and dealloc in every order                       *)

ListSize == 16
ListHeap == ListBlocks * (HeaderSize + ListSize)

InitList ==
    /\ Unconstructed
    /\ budget = ListClock

NextList ==
    \/ RawInit(AlignedStart, ListHeap)
    \/ Alloc("raw", ListSize, ALIGN_OF_USIZE)
    \/ \E p \in PtrInputs \ {NULL} : Dealloc("raw", p)

SpecList == InitList /\ [][NextList]_vars

----------------------------------------------------------------------------
(* The argument checks: init through both entry points, alloc through both *)
(* with sizes and alignments that are refused (0 among them), freeze,      *)
(* enable and disable                                                       *)

ArgSizes == {0, 16}
ArgAligns == {0, 3, 8}

InitArgs ==
    /\ Unconstructed
    /\ budget = ArgsClock

NextArgs ==
    \/ \E s \in Starts, z \in HeapSizes \ {MOD_MIN_HEAP} : RawInit(s, z)
    \/ \E s \in Starts, z \in HeapSizes \ {min_block_size} : ModInit(s, z)
    \/ \E api \in Apis, z \in ArgSizes, a \in ArgAligns : Alloc(api, z, a)
    \/ \E api \in Apis : Freeze(api)
    \/ Enable
    \/ Disable

SpecArgs == InitArgs /\ [][NextArgs]_vars

----------------------------------------------------------------------------
(* Callers sharing the wrapper: every ThreadSafeEarlyAllocator method      *)
(* takes self.allocator.lock(), runs the core call and drops the guard     *)
(* when it returns. A call is three steps: it is issued (Call), it gets    *)
(* the spin::Mutex (Acquire), and it runs its body and returns (Run...)    *)

\* the calls a caller issues
Requests ==
    {[op |-> "init", a |-> AlignedStart, b |-> SmallHeap],
     [op |-> "alloc_aligned", a |-> 16, b |-> ALIGN_OF_USIZE],
     [op |-> "freeze", a |-> 0, b |-> 0],
     [op |-> "stats", a |-> 0, b |-> 0],
     [op |-> "integrity_check", a |-> 0, b |-> 0],
     [op |-> "prepare_handover", a |-> 0, b |-> 0]}
    \cup {[op |-> "dealloc", a |-> p, b |-> 0] : p \in PtrInputs \ {NULL}}
    \cup {[op |-> "set_purpose", a |-> p, b |-> KernelStack] : p \in PtrInputs \ {NULL}}

\* the calls in progress
Pending == {c \in Callers : pc[c] # "idle"}

\* a call is issued only while the explored ticks and errors leave room
\* for it and for the calls already in progress (each takes at most two)
Call(c, r) ==
    /\ pc[c] = "idle"
    /\ clock + Errors(stats) + 2 * (Cardinality(Pending) + 1) <= budget
    /\ pc' = [pc EXCEPT ![c] = "waiting"]
    /\ req' = [req EXCEPT ![c] = r]
    /\ UNCHANGED <<core, initialized, MOD_INITIALIZED, MOD_ENABLED, lock, live, freed,
                   frozen_by, budget, ring_buffer, fifo>>

\* a variant of LockAvailable that lets a caller in whatever the lock says
LockAvailable_always == TRUE

\* spin::Mutex::lock gets past its compare-exchange only on a free lock
LockAvailable == lock = "free"

\* self.allocator.lock()
Acquire(c) ==
    /\ pc[c] = "waiting"
    /\ LockAvailable
    /\ lock' = c
    /\ pc' = [pc EXCEPT ![c] = "inside"]
    /\ UNCHANGED <<core, initialized, MOD_INITIALIZED, MOD_ENABLED, live, freed,
                   frozen_by, req, budget, ring_buffer, fifo>>

\* the caller holds the guard and its call is the method op
Inside(c, op) == pc[c] = "inside" /\ lock = c /\ req[c].op = op

\* the method returns: the guard is dropped
Return(c) ==
    /\ pc' = [pc EXCEPT ![c] = "idle"]
    /\ req' = [req EXCEPT ![c] = NoRequest]
    /\ lock' = "free"

RunInit(c) ==
    /\ Inside(c, "init")
    /\ IF ThreadSafe_init_result(req[c].a, req[c].b) = "Ok"
       THEN InstallHeap(req[c].a, req[c].b)
       ELSE UNCHANGED <<core, initialized>>
    /\ Return(c)
    /\ UNCHANGED <<MOD_INITIALIZED, MOD_ENABLED, live, freed, frozen_by, budget, ring_buffer, fifo>>

RunAlloc(c) ==
    /\ Inside(c, "alloc_aligned")
    /\ \E r \in {AllocCall(K, "raw", req[c].a, req[c].b)} :
          /\ mem' = r.mem
          /\ free_list_head' = r.head
          /\ stats' = r.stats
          /\ next_alloc_id' = r.next_alloc_id
          /\ clock' = r.clock
          /\ live' = IF r.ptr # NULL
                     THEN live \cup {[ptr |-> r.ptr, size |-> req[c].a,
                                      id |-> next_alloc_id]}
                     ELSE live
          /\ freed' = IF r.ptr # NULL THEN freed \ {r.ptr} ELSE freed
    /\ Return(c)
    /\ UNCHANGED <<initialized, heap_start, heap_end, frozen, MOD_INITIALIZED,
                   MOD_ENABLED, frozen_by, budget, ring_buffer, fifo>>

RunDealloc(c) ==
    /\ Inside(c, "dealloc")
    /\ \E r \in {DeallocCall(K, "raw", req[c].a)} :
          /\ mem' = r.mem
          /\ free_list_head' = r.head
          /\ stats' = r.stats
          /\ clock' = r.clock
          /\ live' = IF r.res = "Ok" THEN {a \in live : a.ptr # req[c].a} ELSE live
          /\ freed' = IF r.res = "Ok" THEN freed \cup {req[c].a} ELSE freed
    /\ Return(c)
    /\ UNCHANGED <<initialized, heap_start, heap_end, frozen, next_alloc_id,
                   MOD_INITIALIZED, MOD_ENABLED, frozen_by, budget, ring_buffer, fifo>>

RunSetPurpose(c) ==
    /\ Inside(c, "set_purpose")
    /\ mem' = SetPurposeCall(mem, "raw", req[c].a, req[c].b).mem
    /\ Return(c)
    /\ UNCHANGED <<initialized, heap_start, heap_end, free_list_head, stats, frozen,
                   next_alloc_id, clock, MOD_INITIALIZED, MOD_ENABLED, live, freed,
                   frozen_by, budget, ring_buffer, fifo>>

RunFreeze(c) ==
    /\ Inside(c, "freeze")
    /\ IF FreezeResult("raw") = "Ok"
       THEN /\ frozen' = freeze_value
            /\ frozen_by' = IF frozen_by = "none" THEN "raw" ELSE frozen_by
       ELSE UNCHANGED <<frozen, frozen_by>>
    /\ Return(c)
    /\ UNCHANGED <<mem, initialized, heap_start, heap_end, free_list_head, stats,
                   next_alloc_id, clock, MOD_INITIALIZED, MOD_ENABLED, live, freed,
                   budget, ring_buffer, fifo>>

\* stats and integrity_check only read the allocator
RunRead(c) ==
    /\ Inside(c, "stats") \/ Inside(c, "integrity_check")
    /\ Return(c)
    /\ UNCHANGED <<core, initialized, MOD_INITIALIZED, MOD_ENABLED, live, freed,
                   frozen_by, budget, ring_buffer, fifo>>

\* with an allocator, EarlyAllocator::prepare_handover builds the package
\* and EarlyBox::new then calls GLOBAL_EARLY_ALLOCATOR's alloc_aligned, that
\* is self.allocator.lock() again, under the guard the caller still holds:
\* the caller spins and its guard is never dropped.  The package is a local
\* of the call that nobody gets to see; HandoverInfo::new has taken its
\* timestamp
RunPrepareHandover(c) ==
    /\ Inside(c, "prepare_handover")
    /\ IF PrepareHandoverReachesCore("raw")
       THEN /\ clock' = clock + 1
            /\ pc' = [pc EXCEPT ![c] = "respin"]
            /\ UNCHANGED <<lock, req>>
       ELSE Return(c) /\ UNCHANGED clock
    /\ UNCHANGED <<mem, heap_start, heap_end, free_list_head, stats, frozen,
                   next_alloc_id, initialized, MOD_INITIALIZED, MOD_ENABLED, live,
                   freed, frozen_by, budget, ring_buffer, fifo>>

\* the body of the call the caller is in
Run(c) ==
    \/ RunInit(c)
    \/ RunAlloc(c)
    \/ RunDealloc(c)
    \/ RunSetPurpose(c)
    \/ RunFreeze(c)
    \/ RunRead(c)
    \/ RunPrepareHandover(c)

InitLock ==
    /\ Unconstructed
    /\ budget = LockBudget

NextLock ==
    \/ \E c \in Callers, r \in Requests : Call(c, r)
    \/ \E c \in Callers : Acquire(c)
    \/ \E c \in Callers : Run(c)

SpecLock == InitLock /\ [][NextLock]_vars

\* no scheduler exists: every caller is a hart that keeps executing, so a
\* body that can run does run, and a spinning caller gets a lock that is
\* free again and again
SpecLockFair ==
    /\ SpecLock
    /\ \A c \in Callers : WF_vars(Run(c)) /\ SF_vars(Acquire(c))

----------------------------------------------------------------------------
(* The block chain: the headers reached from heap_start in hops of         *)
(* total_size, and where the walk lands                                     *)

WalkFuel == Cardinality(DOMAIN mem)

RECURSIVE ChainFrom(_, _, _, _)
ChainFrom(m, addr, end, fuel) ==
    IF addr >= end \/ fuel = 0 THEN {}
    ELSE {addr} \cup ChainFrom(m, addr + total_size(m, addr), end, fuel - 1)

RECURSIVE Landing(_, _, _, _)
Landing(m, addr, end, fuel) ==
    IF addr >= end \/ fuel = 0 THEN addr
    ELSE Landing(m, addr + total_size(m, addr), end, fuel - 1)

BlockChain == ChainFrom(mem, heap_start, heap_end, WalkFuel)

\* the byte ranges [a1, a1 + n1) and [a2, a2 + n2) share a byte
Overlap(a1, n1, a2, n2) == a1 < a2 + n2 /\ a2 < a1 + n1

\* the wrapper api reaches an initialized allocator
Usable(api) == FreezeResult(api) = "Ok"


----------------------------------------------------------------------------
(* C1 *)

\* C1: in every reachable state the byte ranges [p, p + n) of the live
\* allocations are pairwise disjoint, lie inside [heap_start, heap_end) and
\* cover no header of the block chain.
C1_LiveAllocationsDisjoint ==
    initialized =>
        /\ \A a \in live : heap_start <= a.ptr /\ a.ptr + a.size <= heap_end
        /\ \A a \in live : \A h \in BlockChain :
              ~Overlap(a.ptr, a.size, h, HeaderSize)
        /\ \A a, b \in live : a # b => ~Overlap(a.ptr, a.size, b.ptr, b.size)

----------------------------------------------------------------------------
(* C2 *)

\* C2: after init and any sequence of calls, the walk over the headers
\* from heap_start in hops of total_size lands exactly on heap_end: the
\* blocks tile the heap, their total sizes sum to heap_size.
C2_ChainTilesHeap ==
    initialized => Landing(mem, heap_start, heap_end, WalkFuel) = heap_end

\* two allocations were live together, both were freed, and the chain is
\* one block again: both merges of coalesce have run
C2_witness_coalesced ==
    /\ initialized
    /\ stats.peak_used_size >= 32
    /\ stats.total_frees >= 2
    /\ Cardinality(BlockChain) = 1

----------------------------------------------------------------------------
(* C3 *)

\* C3: on a non-frozen allocator dealloc(p) of every live pointer p
\* returns Ok, the header at p - header_size becomes Free and used_size
\* decreases by that block's payload size.
C3_DeallocOfLiveReturnsOk ==
    (initialized /\ ~frozen) =>
        \A a \in live :
            \A r \in {dealloc(K, frozen, heap_start, heap_end, a.ptr)} :
                /\ r.res = "Ok"
                /\ HStatus(r.mem, HeaderOf(a.ptr)) = Free
                /\ r.stats.used_size = stats.used_size - HSize(mem, HeaderOf(a.ptr))

----------------------------------------------------------------------------
(* C4 *)

\* C4: from every reachable non-frozen state, if alloc(n) returns p and
\* dealloc(p) is called, the alloc(n) that follows succeeds and
\* integrity_check returns Ok.
C4_RoundTrip ==
    (initialized /\ ~frozen) =>
        \A n \in CoreSizes :
            \A r1 \in {alloc_aligned(K, frozen, n, ALIGN_OF_USIZE)} :
                r1.ptr # NULL =>
                    \A r2 \in {dealloc(CoreOf(r1), frozen, heap_start, heap_end, r1.ptr)} :
                        \A r3 \in {alloc_aligned(CoreOf(r2), frozen, n, ALIGN_OF_USIZE)} :
                            /\ r3.ptr # NULL
                            /\ integrity_check(r3.mem, heap_start, heap_end) = "Ok"

----------------------------------------------------------------------------
(* C5 *)

\* C5: for every pointer released by a successful dealloc and not returned
\* by an allocation since, dealloc returns DoubleFree or InvalidPointer,
\* whatever happened to other blocks in between, and integrity_check
\* returns Ok afterwards.
C5_DoubleFreeAlwaysReported ==
    (initialized /\ ~frozen) =>
        \A p \in freed :
            \A r \in {dealloc(K, frozen, heap_start, heap_end, p)} :
                /\ r.res \in {"DoubleFree", "InvalidPointer"}
                /\ integrity_check(r.mem, heap_start, heap_end) = "Ok"

----------------------------------------------------------------------------
(* C6 *)

\* C6: a dealloc(p) issued immediately after a successful dealloc(p)
\* returns DoubleFree, adds exactly 1 to double_free_attempts and changes
\* no header, no free-list link and no other statistic.
C6_ImmediateDoubleFree ==
    \A api \in Apis, p \in PtrInputs \ {NULL} :
        \A r1 \in {DeallocCall(K, api, p)} :
            r1.res = "Ok" =>
                \A r2 \in {DeallocCall(CoreOf(r1), api, p)} :
                    /\ r2.res = "DoubleFree"
                    /\ CoreOf(r2) = [CoreOf(r1) EXCEPT
                                       !.stats.double_free_attempts = @ + 1]

\* a block was allocated and freed, and the one dealloc that followed was
\* answered DoubleFree
C6_witness_second_dealloc ==
    /\ stats.total_allocs = 1
    /\ stats.total_frees = 1
    /\ stats.double_free_attempts = 1
    /\ stats.corrupted_blocks = 0
    /\ freed # {}

----------------------------------------------------------------------------
(* C7 *)

\* C7: whenever dealloc or set_purpose returns an error, the block chain,
\* the free list and used_size, free_size, alloc_count, free_count are what
\* they were before the call; only double_free_attempts and
\* corrupted_blocks may have changed.
C7_ErrorsLeaveStructure ==
    \A api \in Apis, p \in PtrInputs :
        /\ \A r \in {DeallocCall(K, api, p)} :
              r.res # "Ok" =>
                  CoreOf(r) = [K EXCEPT
                                 !.stats.double_free_attempts = r.stats.double_free_attempts,
                                 !.stats.corrupted_blocks = r.stats.corrupted_blocks]
        /\ \A u \in Purposes :
              \A r \in {SetPurposeCall(mem, api, p, u)} : r.res # "Ok" => r.mem = mem

\* failing deallocs of both counted kinds were answered while a block is
\* live and free space is linked, and a set_purpose call would fail
C7_witness_errors_returned ==
    /\ stats.double_free_attempts >= 1
    /\ stats.corrupted_blocks >= 1
    /\ live # {}
    /\ free_list_head # NULL
    /\ \E p \in PtrInputs \ {NULL} : SetPurposeResult("raw", p) \notin {"Ok", "NotInitialized"}

----------------------------------------------------------------------------
(* C8 *)

\* C8: once freeze has returned, every alloc and alloc_aligned call returns
\* None and every dealloc call returns AllocatorFrozen, and none of them
\* changes a header or a free-list link.
C8_FrozenRefusesAllocAndDealloc ==
    \A api \in Apis : (frozen /\ Usable(api)) =>
        /\ \A z \in ReqSizes, a \in ReqAligns :
              /\ AllocResult(api, z, a) = NULL
              /\ \A r \in {alloc_aligned(K, frozen, z, a)} :
                    r.ptr = NULL /\ r.mem = mem /\ r.head = free_list_head
        /\ \A p \in PtrInputs \ {NULL} :
              /\ DeallocResult(api, p) = "AllocatorFrozen"
              /\ \A d \in {dealloc(K, frozen, heap_start, heap_end, p)} :
                    d.mem = mem /\ d.head = free_list_head

\* a frozen allocator with a live block and linked free space, on which an
\* allocation has failed
C8_witness_frozen_in_use ==
    /\ frozen
    /\ live # {}
    /\ free_list_head # NULL
    /\ stats.failed_allocs >= 1

----------------------------------------------------------------------------
(* C9 *)

\* C9: freeze is one-way: once a freeze call has returned, the allocator
\* is frozen in every later state, and after no public call does an
\* allocation succeed again.
C9_FreezeIsOneWay ==
    frozen_by # "none" =>
        /\ frozen
        /\ \A api \in Apis, z \in ReqSizes, a \in ReqAligns :
              AllocResult(api, z, a) = NULL

\* init::alloc::freeze has returned, which disables the module, and
\* enable() was called since; free space is linked: nothing but the frozen
\* flag refuses an allocation
C9_witness_enabled_after_freeze ==
    /\ frozen_by = "mod"
    /\ MOD_INITIALIZED
    /\ MOD_ENABLED
    /\ free_list_head # NULL
    /\ lock = "free"

----------------------------------------------------------------------------
(* C10 *)

\* C10: after freeze, set_purpose on a live block fails with
\* AllocatorFrozen and leaves the header unchanged.
C10_SetPurposeRefusedWhenFrozen ==
    \A api \in Apis : (frozen /\ Usable(api)) =>
        \A a \in live, u \in Purposes :
            /\ SetPurposeResult(api, a.ptr) = "AllocatorFrozen"
            /\ api = "raw" => set_purpose(mem, a.ptr, u) = mem

----------------------------------------------------------------------------
(* C11 *)

\* the headers of the chain whose status is Allocated
AllocatedHeaders == { h \in BlockChain : HStatus(mem, h) = Allocated }

\* the HandoverInfo a prepare_handover call would build in this state
HandoverNow == prepare_handover_info(mem, heap_start, heap_end, stats, clock)

\* C11: on an initialized allocator that has been frozen, prepare_handover
\* returns a handover package and validate on that package returns Ok, for
\* every heap and every set of live allocations within the capacity.
C11_HandoverOfFrozenValidates ==
    \A api \in Apis :
        (frozen /\ Usable(api) /\ lock = "free"
                /\ Cardinality(AllocatedHeaders) <= MAX_TRACKED_BLOCKS) =>
            /\ PrepareHandoverResult(api) = "Some"
            /\ handover_validate(HandoverNow) = "Ok"

----------------------------------------------------------------------------
(* C12 *)

\* what the claim says of a snapshot: the block's payload address, payload
\* size, purpose and alloc_id
Identity(b) == [addr |-> b.addr, size |-> b.size, purpose |-> b.purpose,
                alloc_id |-> b.alloc_id]

\* C12: when the Allocated blocks are at most MAX_TRACKED_BLOCKS, the package
\* prepare_handover builds holds one snapshot per Allocated block of the
\* chain and none for a Free block: allocated_count is the number of
\* Allocated blocks, and the snapshots' addr, size, purpose and alloc_id are
\* those blocks' payload address, payload size, purpose and alloc_id.
C12_CensusIsExact ==
    (initialized /\ Cardinality(AllocatedHeaders) <= MAX_TRACKED_BLOCKS) =>
        \A info \in { HandoverNow } :
            /\ info.allocated_count = Cardinality(AllocatedHeaders)
            /\ Len(info.allocated_blocks) = info.allocated_count
            /\ { Identity(info.allocated_blocks[i]) : i \in 1..info.allocated_count }
                 = { [addr |-> h + HeaderSize, size |-> HSize(mem, h),
                      purpose |-> HPurpose(mem, h), alloc_id |-> HAllocId(mem, h)]
                     : h \in AllocatedHeaders }

\* a prepare_handover call has run the walk (its caller spins in
\* EarlyBox::new, so the heap is the one it walked) and built a package of
\* two snapshots, one of them with a purpose set, on a heap that also holds
\* a Free block
C12_witness_package_built ==
    /\ \E c \in Callers : pc[c] = "respin"
    /\ HandoverNow.allocated_count = 2
    /\ \E i \in 1..2 : HandoverNow.allocated_blocks[i].purpose = KernelStack
    /\ \E h \in BlockChain : HStatus(mem, h) = Free

----------------------------------------------------------------------------
(* C13 *)

\* C13: for a package on which validate returns Ok, changing one field of
\* one snapshot below allocated_count, or one field of the embedded
\* statistics, without recomputing the checksum, makes validate return an
\* error.
C13_TamperingIsDetected ==
    initialized =>
        \A info \in { HandoverNow } :
            handover_validate(info) = "Ok" =>
                /\ \A i \in 1..info.allocated_count :
                      \A f \in {"addr", "size", "purpose", "alloc_id", "timestamp",
                                "permissions", "alignment"} :
                          handover_validate(
                              [info EXCEPT !.allocated_blocks[i][f] = @ + 1]) # "Ok"
                /\ \A f \in DOMAIN info.statistics :
                      handover_validate([info EXCEPT !.statistics[f] = @ + 1]) # "Ok"

----------------------------------------------------------------------------
(* C14 *)

\* the n lowest addresses of the set S
Lowest(S, n) == { a \in S : Cardinality({ b \in S : b < a }) < n }

\* C14: with more Allocated blocks than MAX_TRACKED_BLOCKS, prepare_handover
\* still returns a package; its allocated_count is MAX_TRACKED_BLOCKS, it
\* holds the MAX_TRACKED_BLOCKS lowest-addressed Allocated blocks, and it
\* signals the truncation (its count is saturated at the capacity).
C14_TruncatedCensusIsReturned ==
    (initialized /\ lock = "free" /\ Cardinality(live) > MAX_TRACKED_BLOCKS) =>
        /\ PrepareHandoverResult("raw") = "Some"
        /\ \A info \in { HandoverNow } :
              /\ info.allocated_count = MAX_TRACKED_BLOCKS
              /\ { info.allocated_blocks[i].addr : i \in 1..info.allocated_count }
                   = Lowest({ a.ptr : a \in live }, MAX_TRACKED_BLOCKS)

----------------------------------------------------------------------------
(* C15 *)

\* C15: under fair scheduling of the callers, every call that was issued
\* eventually returns with the allocator lock released by it: no call stays
\* waiting for the lock or holding it for ever, and none spins on the lock
\* its own caller holds.
C15_EveryCallReturns ==
    \A c \in Callers : (pc[c] # "idle") ~> (pc[c] = "idle" /\ lock # c)

----------------------------------------------------------------------------
(* C16 *)

\* the caller holds the guard
InCore(c) == pc[c] \in {"inside", "respin"}

\* C16: with several callers going through the wrapper, at most one caller
\* is inside the core at any time and it is the one that holds the lock;
\* the allocator changes only in a step in which the lock holder runs its
\* whole call and leaves the critical section; and between the calls the
\* blocks tile the heap, every header validates and integrity_check
\* returns Ok.
C16_OneCallerInsideCore ==
    /\ [](/\ \A c, d \in Callers : (InCore(c) /\ InCore(d)) => c = d
          /\ \A c \in Callers : InCore(c) <=> lock = c
          /\ initialized =>
                /\ Landing(mem, heap_start, heap_end, WalkFuel) = heap_end
                /\ \A h \in BlockChain : validate(mem, h)
                /\ integrity_check(mem, heap_start, heap_end) = "Ok")
    /\ [][(core' # core \/ initialized' # initialized) =>
             \E c \in Callers : pc[c] = "inside" /\ lock = c /\ pc'[c] # "inside"]_vars

\* one caller is inside a dealloc of a live block while the other spins on
\* the lock with an allocation
C16_witness_contended ==
    \E c, d \in Callers :
        /\ pc[c] = "inside" /\ req[c].op = "dealloc"
        /\ req[c].a \in {a.ptr : a \in live}
        /\ pc[d] = "waiting" /\ req[d].op = "alloc_aligned"

----------------------------------------------------------------------------
(* C17 *)

\* C17: once an init call has succeeded, every later init call, through
\* either entry point and with any arguments, fails with
\* AlreadyInitialized (and so leaves the heap, the live allocations and the
\* statistics as they are).
C17_InitAtMostOnce ==
    initialized =>
        \A s \in Starts, z \in HeapSizes :
            /\ ThreadSafe_init_result(s, z) = "AlreadyInitialized"
            /\ ModInitResult(s, z) = "AlreadyInitialized"

----------------------------------------------------------------------------
(* C18 *)

\* C18: after every completed operation every header of the block chain
\* validates (magic, non-zero size, stored checksum equal to the checksum
\* of its current fields), and integrity_check returns Ok.
C18_EveryHeaderValidates ==
    initialized =>
        /\ \A h \in BlockChain : validate(mem, h)
        /\ integrity_check(mem, heap_start, heap_end) = "Ok"

\* a heap with a split block in use, a block that was freed and merged, and
\* a purpose that was set: every kind of header write has happened
C18_witness_headers_rewritten ==
    /\ initialized
    /\ live # {}
    /\ stats.total_frees >= 1
    /\ Cardinality(BlockChain) >= 2
    /\ \E h \in BlockChain : HPurpose(mem, h) # Unknown

----------------------------------------------------------------------------
(* C19 *)

\* C19: in every reachable state no two blocks that are adjacent in
\* address order are both Free.
C19_NoAdjacentFreeBlocks ==
    initialized =>
        \A h \in BlockChain :
            (HStatus(mem, h) = Free /\ h + total_size(mem, h) \in BlockChain) =>
                HStatus(mem, h + total_size(mem, h)) # Free

\* a live block lies between a Free predecessor and a Free successor, and
\* the dealloc of its pointer leaves the three as one Free block
C19_witness_merge_both_sides ==
    \E a \in live, g \in BlockChain :
        \E h \in { HeaderOf(a.ptr) } :
            /\ h \in BlockChain
            /\ HStatus(mem, h) = Allocated
            /\ HStatus(mem, g) = Free /\ g + total_size(mem, g) = h
            /\ h + total_size(mem, h) \in BlockChain
            /\ HStatus(mem, h + total_size(mem, h)) = Free
            /\ \E r \in { DeallocCall(K, "raw", a.ptr) } :
                  /\ r.res = "Ok"
                  /\ HStatus(r.mem, g) = Free
                  /\ g + total_size(r.mem, g)
                       = h + total_size(mem, h)
                           + total_size(mem, h + total_size(mem, h))

----------------------------------------------------------------------------
(* C20 *)

\* the FreeBlock nodes met from node through the next links, at most fuel
\* of them
RECURSIVE FreeListFrom(_, _, _)
FreeListFrom(m, node, fuel) ==
    IF node = NULL \/ fuel = 0 THEN <<>>
    ELSE <<node>> \o FreeListFrom(m, FbNext(m, node), fuel - 1)

\* the free list of the current state; a list that does not end within one
\* node per block shows as a sequence longer than the chain
FreeList == FreeListFrom(mem, free_list_head, Cardinality(BlockChain) + 1)

\* the headers of the chain whose status is Free
FreeHeaders == { h \in BlockChain : HStatus(mem, h) = Free }

\* C20: in every reachable state the free list, followed from
\* free_list_head through the next links, visits exactly the Free blocks of
\* the chain, each once, in strictly ascending address order, and the prev
\* link of every node is its predecessor in that order (null for the head;
\* the last node's next is null).
C20_FreeListIsTheFreeBlocks ==
    initialized =>
        \A fl \in { FreeList } :
            /\ { get_header_from_free_block(fl[i]) : i \in 1..Len(fl) } = FreeHeaders
            /\ Len(fl) = Cardinality(FreeHeaders)
            /\ \A i \in 1..(Len(fl) - 1) : fl[i] < fl[i + 1]
            /\ \A i \in 1..Len(fl) :
                  FbPrev(mem, fl[i]) = IF i = 1 THEN NULL ELSE fl[i - 1]

\* the free list has two nodes with a live block between them that touches
\* neither, and the dealloc of that block links it between the two
C20_witness_insert_between ==
    \E x \in live :
        \E fl \in { FreeList } :
            /\ Len(fl) = 2
            /\ fl[1] < x.ptr /\ x.ptr < fl[2]
            /\ \E r \in { DeallocCall(K, "raw", x.ptr) } :
                  /\ r.res = "Ok"
                  /\ FreeListFrom(r.mem, r.head, 4) = <<fl[1], x.ptr, fl[2]>>

----------------------------------------------------------------------------
(* C21 *)

\* C21: after init and after every operation, used_size + free_size equals
\* heap_size minus one header size for each block of the chain.
C21_StatsBalance ==
    initialized =>
        stats.used_size + stats.free_size
            = (heap_end - heap_start) - Cardinality(BlockChain) * HeaderSize

----------------------------------------------------------------------------
(* C22 *)

\* C22: no statistics counter goes below zero: free_size, used_size,
\* free_count and alloc_count are non-negative in every reachable state, and
\* the subtraction alloc_aligned applies to free_size when it unlinks the
\* block it found (before the remainder is added back) does not go below
\* zero either, for every request the state admits.
C22_NoCounterUnderflow ==
    initialized =>
        /\ stats.free_size >= 0 /\ stats.used_size >= 0
        /\ stats.free_count >= 0 /\ stats.alloc_count >= 0
        /\ \A z \in CoreSizes, a \in CoreAligns :
              ~AllocRefused(frozen, z, a) =>
                  \A f \in { find_free_block(K, Max(z, FreeBlockSize), a) } :
                      f.found =>
                          \A st1 \in { UnlinkedStats(stats, HSize(mem, f.header)) } :
                              st1.free_size >= 0 /\ st1.free_count >= 0

----------------------------------------------------------------------------
(* C23 *)

\* the alignments and sizes asked of alloc_aligned: every power of two up to
\* 64, the smallest block and the 100 bytes of the scenario
AlignInputs == {1, 2, 4, 8, 16, 32, 64}
AlignedSizes == {16, 100}

\* C23: in every reachable state, for every power-of-two align and every
\* size > 0, the pointer p a successful alloc_aligned(size, align) returns
\* satisfies p mod align = 0, whatever the address of the free block it is
\* carved from.
C23_ReturnedPointerIsAligned ==
    initialized =>
        \A z \in AlignedSizes, a \in AlignInputs :
            \A p \in { AllocCall(K, "raw", z, a).ptr } :
                p # NULL => p % a = 0

\* a pointer handed out earlier is live and lies behind padding, the first
\* free block does not start at heap_start and its payload address is not a
\* multiple of 64, and alloc_aligned(16, 64) succeeds on it with a pointer
\* moved up to the next multiple of 64
C23_witness_padded_pointer ==
    /\ initialized /\ ~frozen
    /\ \E x \in live : HeaderOf(x.ptr) \notin BlockChain
    /\ free_list_head # NULL
    /\ get_header_from_free_block(free_list_head) # heap_start
    /\ free_list_head % 64 # 0
    /\ \E p \in { AllocCall(K, "raw", 16, 64).ptr } :
          /\ p # NULL
          /\ p > free_list_head
          /\ p % 64 = 0

----------------------------------------------------------------------------
(* C24 *)

\* C24: in every state, through either entry point, alloc_aligned(0, a) for
\* any a (alloc(0) is alloc_aligned(0, 8)) and alloc_aligned(n, a) for any a
\* that is not a power of two, 0 included, return failure and leave the
\* memory (block chain and free-list links), the free-list head, used_size
\* and free_size as they are.
C24_InvalidRequestsFail ==
    \A api \in Apis, z \in ArgSizes \cup {20}, a \in ArgAligns \cup {1, 6, 64} :
        (z = 0 \/ ~IsPowerOfTwo(a)) =>
            \A r \in { AllocCall(K, api, z, a) } :
                /\ r.ptr = NULL
                /\ r.mem = mem
                /\ r.head = free_list_head
                /\ r.stats.used_size = stats.used_size
                /\ r.stats.free_size = stats.free_size

\* an allocator in use and not frozen that has counted a refused request
C24_witness_refused_in_use ==
    /\ initialized /\ ~frozen
    /\ live # {}
    /\ Cardinality(BlockChain) >= 2
    /\ stats.failed_allocs >= 1

----------------------------------------------------------------------------
(* C25 *)

\* request sizes near usize::MAX: usize::MAX itself and usize::MAX - 40
BigSizes == {USIZE_MAX, USIZE_MAX - 40}

\* no Free block of the free list holds size bytes behind the padding that
\* align asks for; a size of 2^63 or more fits no block
NoBlockFits(size, align) ==
    \A i \in 1..Len(FreeList) :
        \A h \in { get_header_from_free_block(FreeList[i]) } :
            \/ size < 0
            \/ HSize(mem, h) < calculate_aligned_addr(h, align) - h + Max(size, FreeBlockSize)

\* C25: when no free block fits a request with a size above 0 and a
\* power-of-two alignment, alloc_aligned does not panic, returns None,
\* failed_allocs goes up by exactly 1, and the memory (block chain and
\* free-list links), the free-list head and every other statistic stay as
\* they are.
C25_NoFitFails ==
    (initialized /\ ~frozen) =>
        \A z \in CoreSizes \cup {100} \cup BigSizes, a \in CoreAligns \cup {64} :
            NoBlockFits(z, a) =>
                /\ free_list_head # NULL =>
                       ~FitOverflows(mem, free_list_head, UMax(z, FreeBlockSize), a)
                /\ \A r \in { AllocCall(K, "raw", z, a) } :
                      /\ r.ptr = NULL
                      /\ r.stats = [stats EXCEPT !.failed_allocs = @ + 1]
                      /\ r.mem = mem
                      /\ r.head = free_list_head
                      /\ r.next_alloc_id = next_alloc_id

----------------------------------------------------------------------------
(* C26 *)

\* C26: dealloc(ptr) with ptr outside [heap_start, heap_end), ptr = heap_end
\* among them, returns InvalidPointer and changes no block, no free-list
\* link and no counter.
C26_OutOfRangeIsInvalidPointer ==
    (initialized /\ ~frozen) =>
        \A p \in {heap_start - W, heap_end, heap_end + W} :
            \A r \in { DeallocCall(K, "raw", p) } :
                /\ r.res = "InvalidPointer"
                /\ CoreOf(r) = K

----------------------------------------------------------------------------
(* C27 *)

\* C27: right after a successful init (before any allocation and any counted
\* failure) integrity_check returns Ok, the chain is one Free block that
\* spans the whole region, free_count = 1, used_size = 0, and free_size is
\* heap_size minus the size of that block's header.
C27_FreshHeap ==
    (initialized /\ stats.total_allocs = 0 /\ Errors(stats) = 0) =>
        /\ integrity_check(mem, heap_start, heap_end) = "Ok"
        /\ BlockChain = {heap_start}
        /\ HStatus(mem, heap_start) = Free
        /\ heap_start + total_size(mem, heap_start) = heap_end
        /\ stats.free_count = 1
        /\ stats.used_size = 0
        /\ stats.free_size = (heap_end - heap_start) - HeaderSize

----------------------------------------------------------------------------
(* C28 *)

\* the arguments init has to reject: a null start, a size below
\* 2 x (header size + free-node size), 0 included, a start that is not
\* 16-byte aligned
BadInitArguments(start, size) ==
    start = 0 \/ size < min_heap_size \/ start % 16 # 0

\* C28: no init call with bad arguments builds an allocator, through any
\* entry point: an allocator that exists was built from good arguments, and
\* as long as none exists nothing has been written to memory and an init
\* with valid arguments succeeds.
C28_InitRejectsBadArguments ==
    /\ initialized => ~BadInitArguments(heap_start, heap_end - heap_start)
    /\ ~initialized =>
          /\ mem = <<>>
          /\ ThreadSafe_init_result(AlignedStart, SmallHeap) = "Ok"
          /\ ~MOD_INITIALIZED => ModInitResult(AlignedStart, MOD_MIN_HEAP) = "Ok"

----------------------------------------------------------------------------
(* C29 *)

\* HandoverInfo::group_by_purpose: the number of listed blocks whose purpose
\* is purpose
GroupCount(info, purpose) ==
    Cardinality({ i \in 1..info.allocated_count :
                    info.allocated_blocks[i].purpose = purpose })

\* C29: when init::alloc::set_purpose(p, P) (the call alloc_with_purpose!
\* makes) returns Ok for a live block allocated through the public
\* interface, the handover package built next lists that block with purpose
\* P and group_by_purpose counts it under P.
C29_PurposeIsRecorded ==
    \A a \in live, u \in Purposes \ {Unknown} :
        \A r \in { SetPurposeCall(mem, "mod", a.ptr, u) } :
            r.res = "Ok" =>
                \A info \in { prepare_handover_info(r.mem, heap_start, heap_end,
                                                    stats, clock) } :
                    /\ \E i \in 1..info.allocated_count :
                          /\ info.allocated_blocks[i].alloc_id = a.id
                          /\ info.allocated_blocks[i].purpose = u
                    /\ GroupCount(info, u) >= 1

----------------------------------------------------------------------------
(* C30 *)

\* the fields of a BlockHeader and the values tried for each of them
HeaderFields == {"size", "status", "magic", "alloc_id", "purpose", "timestamp",
                 "checksum"}

FieldValues(f) ==
    CASE f = "size" -> {0, 16, 20, 80, 144, 208}
      [] f = "status" -> {Free, Allocated}
      [] f = "magic" -> {BLOCK_MAGIC, BLOCK_MAGIC + 1, 0}
      [] f = "alloc_id" -> 0..4
      [] f = "purpose" -> Purposes
      [] f = "timestamp" -> 0..4
      [] f = "checksum" -> {0, 1, FreeSum, AllocatedSum}

\* the value of field f of the header at h
FieldOf(m, h, f) ==
    CASE f = "size" -> HSize(m, h)
      [] f = "status" -> HStatus(m, h)
      [] f = "magic" -> HMagic(m, h)
      [] f = "alloc_id" -> HAllocId(m, h)
      [] f = "purpose" -> HPurpose(m, h)
      [] f = "timestamp" -> HTimestamp(m, h)
      [] f = "checksum" -> HChecksum(m, h)

\* the memory after v was stored in field f of the header at h, the other
\* fields and the stored checksum left as they were
Tampered(m, h, f, v) ==
    CASE f = "size" -> Wr64(m, h + OffSize, v)
      [] f = "status" -> WrByte(m, h + OffStatus, v)
      [] f = "magic" -> Wr(m, (h + OffMagic) :> v)
      [] f = "alloc_id" -> Wr64(m, h + OffAllocId, v)
      [] f = "purpose" -> WrByte(m, h + OffPurpose, v)
      [] f = "timestamp" -> Wr64(m, h + OffTimestamp, v)
      [] f = "checksum" -> Wr(m, (h + OffChecksum) :> v)

\* C30: for every header that validates, storing a different value in
\* exactly one of size, status, magic, alloc_id, purpose or timestamp
\* without update_checksum, or in the stored checksum alone, makes validate
\* return false.
C30_ValidateDetectsFieldChange ==
    initialized =>
        \A h \in BlockChain :
            validate(mem, h) =>
                \A f \in HeaderFields :
                    \A v \in FieldValues(f) :
                        FieldOf(mem, h, f) # v => ~validate(Tampered(mem, h, f, v), h)

----------------------------------------------------------------------------
(* C31 *)

\* the orders in which the pointers of S can be passed to dealloc
Orders(S) ==
    { s \in [1..Cardinality(S) -> S] : \A i, j \in 1..Cardinality(S) : s[i] = s[j] => i = j }

\* the allocator k after dealloc of ptrs[1], ptrs[2], ... in turn
RECURSIVE DeallocAll(_, _)
DeallocAll(k, ptrs) ==
    IF ptrs = <<>> THEN k
    ELSE Only({ DeallocAll(CoreOf(r), Tail(ptrs))
              : r \in { dealloc(k, frozen, heap_start, heap_end, Head(ptrs)) } })

\* C31: after a sequence of successful allocations and nothing else, one
\* dealloc of each returned pointer, in any order, leaves used_size = 0 and
\* alloc_count = 0, and integrity_check returns Ok.
C31_FreeingAllLeavesNothingUsed ==
    (initialized /\ ~frozen /\ stats.total_frees = 0 /\ Errors(stats) = 0
                 /\ Cardinality(live) = stats.total_allocs) =>
        \A s \in Orders({ a.ptr : a \in live }) :
            \A k \in { DeallocAll(K, [i \in DOMAIN s |-> s[i]]) } :
                /\ k.stats.used_size = 0
                /\ k.stats.alloc_count = 0
                /\ integrity_check(k.mem, heap_start, heap_end) = "Ok"

----------------------------------------------------------------------------
(* C32 *)

\* the alignments with which alloc_aligned can have returned the live
\* allocation a: its block is in the chain, Allocated under a's alloc_id, and
\* the aligned address behind its header is a's pointer
AlignsOf(a) ==
    { al \in CoreAligns :
        \E h \in BlockChain : /\ HStatus(mem, h) = Allocated
                              /\ HAllocId(mem, h) = a.id
                              /\ calculate_aligned_addr(h, al) = a.ptr }

\* C32: once an allocation has failed for lack of space, the dealloc of a
\* live block obtained by alloc_aligned(m, align) makes the same request
\* succeed again, whatever the neighbours of the block and the other free
\* blocks are.
C32_ExhaustionRecovery ==
    (initialized /\ ~frozen /\ stats.failed_allocs >= 1) =>
        \A a \in live :
            \A al \in AlignsOf(a) :
                \A r1 \in { dealloc(K, frozen, heap_start, heap_end, a.ptr) } :
                    \A r2 \in { alloc_aligned(CoreOf(r1), frozen, a.size, al) } :
                        r2.ptr # NULL

----------------------------------------------------------------------------
(* C33 *)

\* the requests whose choice of block is examined: sizes that the blocks of
\* one, two and three merged 16-byte allocations tell apart, and an
\* alignment that needs padding in every block
FitSizes == {16, 80, 100}
FitAligns == {8, 64}

\* the block alloc_aligned took for the result r of a request with
\* alignment align: Free before, Allocated after, r.ptr its aligned address
TakenBlocks(r, align) ==
    { h \in FreeHeaders : /\ HStatus(r.mem, h) = Allocated
                          /\ calculate_aligned_addr(h, align) = r.ptr }

\* C33: whenever alloc_aligned(size, align) succeeds, the block it allocates
\* from passes find_free_block's test and no free block at a lower address
\* passes it.
C33_FirstFit ==
    (initialized /\ ~frozen) =>
        \A size \in FitSizes : \A align \in FitAligns :
            \A r \in { alloc_aligned(K, frozen, size, align) } :
                r.ptr # NULL =>
                    \E h \in TakenBlocks(r, align) :
                        /\ FitsBlock(mem, h + HeaderSize, UMax(size, FreeBlockSize), align)
                        /\ \A g \in FreeHeaders :
                              g < h => ~FitsBlock(mem, g + HeaderSize,
                                                  UMax(size, FreeBlockSize), align)

\* two free blocks both pass the test for alloc_aligned(16, 8) and the
\* request is served from the lower of the two
C33_witness_two_candidates ==
    /\ initialized /\ ~frozen
    /\ \E g, h \in FreeHeaders :
          /\ g < h
          /\ FitsBlock(mem, g + HeaderSize, 16, 8)
          /\ FitsBlock(mem, h + HeaderSize, 16, 8)
          /\ \E r \in { alloc_aligned(K, frozen, 16, 8) } :
                r.ptr = g + HeaderSize

----------------------------------------------------------------------------
(* C34 *)

\* whether the block at header h, header included, covers the padded
\* requirement of alloc_aligned(size, align)
TotalSizeCovers(m, h, size, align) ==
    HeaderSize + HSize(m, h)
        >= (calculate_aligned_addr(h, align) - h) + UMax(size, FreeBlockSize)

\* C34: a free block qualifies for alloc_aligned(size, align) exactly when
\* its total size, header plus payload, is at least the distance from its
\* header to the aligned start plus max(size, free-node size); a valid
\* request fails only when no free block has such a total size.
C34_FitRule ==
    (initialized /\ ~frozen) =>
        \A size \in FitSizes : \A align \in FitAligns :
            /\ \A h \in FreeHeaders :
                  FitsBlock(mem, h + HeaderSize, UMax(size, FreeBlockSize), align)
                      <=> TotalSizeCovers(mem, h, size, align)
            /\ \A r \in { alloc_aligned(K, frozen, size, align) } :
                  r.ptr = NULL =>
                      \A h \in FreeHeaders : ~TotalSizeCovers(mem, h, size, align)

----------------------------------------------------------------------------
(* C35 *)

\* C35: when alloc_aligned(size, align) has chosen a free block, it splits
\* the block exactly when the leftover, the block's total size minus the
\* required total size, is at least the minimum block size.  After a split
\* the allocated block's total size is the required size and the remainder
\* is one Free block directly after it, linked in the free list; otherwise
\* the whole block is allocated and no split is recorded.
C35_SplitRule ==
    (initialized /\ ~frozen) =>
        \A size \in FitSizes : \A align \in FitAligns :
            \A f \in { find_free_block(K, UMax(size, FreeBlockSize), align) } :
                f.found =>
                    \A r \in { alloc_aligned(K, frozen, size, align) } :
                        LET required == f.user_addr - f.header + UMax(size, FreeBlockSize)
                            total == HeaderSize + HSize(mem, f.header)
                            rest == f.header + required
                        IN  /\ r.ptr = f.user_addr
                            /\ HStatus(r.mem, f.header) = Allocated
                            /\ IF total - required >= min_block_size
                               THEN /\ HeaderSize + HSize(r.mem, f.header) = required
                                    /\ HStatus(r.mem, rest) = Free
                                    /\ rest + HeaderSize + HSize(r.mem, rest)
                                           = f.header + total
                                    /\ \E fl \in { FreeListFrom(r.mem, r.head, ListBlocks) } :
                                          \E i \in 1..Len(fl) : fl[i] = rest + HeaderSize
                                    /\ r.stats.split_count = stats.split_count + 1
                               ELSE /\ HSize(r.mem, f.header) = HSize(mem, f.header)
                                    /\ r.stats.split_count = stats.split_count

----------------------------------------------------------------------------
(* C36 *)

\* the sum of the payload sizes of the headers in S
RECURSIVE PayloadSum(_)
PayloadSum(S) ==
    IF S = {} THEN 0
    ELSE Only({ HSize(mem, h) + PayloadSum(S \ {h}) : h \in { CHOOSE x \in S : TRUE } })

\* C36: in every reachable state the statistics agree with the block chain:
\* used_size is the sum of the payload sizes of the Allocated blocks,
\* alloc_count the number of Allocated blocks, free_count the number of Free
\* blocks, and total_allocs - total_frees equals alloc_count.
C36_StatsAgreeWithChain ==
    initialized =>
        /\ stats.used_size = PayloadSum(AllocatedHeaders)
        /\ stats.alloc_count = Cardinality(AllocatedHeaders)
        /\ stats.free_count = Cardinality(FreeHeaders)
        /\ stats.total_allocs - stats.total_frees = stats.alloc_count

\* several blocks are Allocated, several are Free, blocks have been freed
\* and merged, and some request has failed
C36_witness_mixed_chain ==
    /\ initialized
    /\ Cardinality(AllocatedHeaders) >= 2
    /\ Cardinality(FreeHeaders) >= 2
    /\ stats.total_frees >= 2
    /\ stats.merge_count >= 1
    /\ stats.failed_allocs >= 1

----------------------------------------------------------------------------
(* C37 *)

\* C37: the heap bounds of the package prepare_handover builds are the
\* allocator's heap_start and heap_end, and every snapshot of the package
\* lies within them: heap_start <= addr and addr + size <= heap_end.
C37_PackageBoundsAreTheAllocators ==
    initialized =>
        \A info \in { HandoverNow } :
            /\ info.heap_start = heap_start
            /\ info.heap_end = heap_end
            /\ \A i \in 1..info.allocated_count :
                  /\ info.heap_start <= info.allocated_blocks[i].addr
                  /\ end_addr(info.allocated_blocks[i]) <= info.heap_end

----------------------------------------------------------------------------
(* C38 *)

\* the payload addresses of the snapshots of a package
PackagedAddrs(info) == { info.allocated_blocks[i].addr : i \in 1..info.allocated_count }

\* C38: a prepare_handover call on an initialized allocator returns, what
\* it returns describes every Allocated block of the chain, and the call
\* leaves the block chain, the free list, the statistics and the next
\* alloc_id as they were (the step PrepareHandover changes none of them).
C38_PrepareHandoverIsReadOnly ==
    \A api \in Apis :
        (lock = "free" /\ PrepareHandoverReachesCore(api)) =>
            /\ PrepareHandoverResult(api) # "NeverReturns"
            /\ { user_data_addr(h) : h \in AllocatedHeaders } \subseteq PackagedAddrs(HandoverNow)

----------------------------------------------------------------------------
(* C39 *)

\* C39: once freeze has returned, no alloc, alloc_aligned or dealloc call
\* changes any field of the statistics (set_purpose writes to a header
\* only: its step leaves stats as it is).
C39_StatsFixedAfterFreeze ==
    frozen_by # "none" =>
        \A api \in Apis :
            /\ \A z \in ReqSizes, a \in ReqAligns :
                  AllocCall(K, api, z, a).stats = stats
            /\ \A p \in PtrInputs \ {NULL} :
                  DeallocCall(K, api, p).stats = stats

----------------------------------------------------------------------------
(* trap::collections::RingBuffer: buffer is indexed from 0, a slot holds   *)
(* an element or NoItem                                                     *)

\* the largest capacity given to with_capacity
RingCapacity == 3
\* the elements pushed are 1..RingValues
RingValues == 3

with_capacity(capacity) ==
    [buffer |-> [i \in 0..(capacity - 1) |-> NoItem],
     capacity |-> capacity, head |-> 0, tail |-> 0, count |-> 0]

len(rb) == rb.count

is_empty(rb) == rb.count = 0

is_full(rb) == rb.count = rb.capacity

\* a variant of push that leaves the tail where it is on a full buffer
push_keeping_tail(rb, item) ==
    IF is_full(rb)
    THEN [rb EXCEPT !.buffer = [rb.buffer EXCEPT ![rb.head] = item],
                    !.head = (rb.head + 1) % rb.capacity]
    ELSE [rb EXCEPT !.buffer = [rb.buffer EXCEPT ![rb.head] = item],
                    !.head = (rb.head + 1) % rb.capacity,
                    !.count = rb.count + 1]

push(rb, item) ==
    IF is_full(rb)
    THEN [rb EXCEPT !.buffer = [rb.buffer EXCEPT ![rb.head] = item],
                    !.head = (rb.head + 1) % rb.capacity,
                    !.tail = (rb.tail + 1) % rb.capacity]
    ELSE [rb EXCEPT !.buffer = [rb.buffer EXCEPT ![rb.head] = item],
                    !.head = (rb.head + 1) % rb.capacity,
                    !.count = rb.count + 1]

\* pop: the buffer it leaves and the value it returns (NoItem: None)
pop(rb) ==
    IF is_empty(rb) THEN [rb |-> rb, item |-> NoItem]
    ELSE [rb |-> [rb EXCEPT !.buffer = [rb.buffer EXCEPT ![rb.tail] = NoItem],
                            !.tail = (rb.tail + 1) % rb.capacity,
                            !.count = rb.count - 1],
          item |-> rb.buffer[rb.tail]]

clear(rb) ==
    [rb EXCEPT !.buffer = [i \in DOMAIN rb.buffer |-> NoItem],
               !.head = 0, !.tail = 0, !.count = 0]

\* the sequence s without the elements before its last n
LastOf(s, n) == IF Len(s) <= n THEN s ELSE SubSeq(s, Len(s) - n + 1, Len(s))

Push(item) ==
    /\ ring_buffer' = push(ring_buffer, item)
    /\ fifo' = LastOf(Append(fifo, item), ring_buffer.capacity)
    /\ UNCHANGED <<core, initialized, MOD_INITIALIZED, MOD_ENABLED, lock, live, freed,
                   frozen_by, pc, req, budget>>

Pop ==
    /\ ring_buffer' = pop(ring_buffer).rb
    /\ fifo' = IF fifo = <<>> THEN fifo ELSE Tail(fifo)
    /\ UNCHANGED <<core, initialized, MOD_INITIALIZED, MOD_ENABLED, lock, live, freed,
                   frozen_by, pc, req, budget>>

Clear ==
    /\ ring_buffer' = clear(ring_buffer)
    /\ fifo' = <<>>
    /\ UNCHANGED <<core, initialized, MOD_INITIALIZED, MOD_ENABLED, lock, live, freed,
                   frozen_by, pc, req, budget>>

\* a RingBuffer fresh from with_capacity; capacity 0 panics (line 28)
InitRing ==
    /\ mem = <<>>
    /\ initialized = FALSE
    /\ heap_start = 0 /\ heap_end = 0 /\ free_list_head = NULL
    /\ stats = AllocStats_new(0)
    /\ frozen = FALSE
    /\ next_alloc_id = 0
    /\ clock = 0
    /\ MOD_INITIALIZED = FALSE
    /\ MOD_ENABLED = TRUE
    /\ lock = "free"
    /\ live = {}
    /\ freed = {}
    /\ frozen_by = "none"
    /\ pc = [c \in Callers |-> "idle"]
    /\ req = [c \in Callers |-> NoRequest]
    /\ budget = 0
    /\ \E capacity \in 1..RingCapacity : ring_buffer = with_capacity(capacity)
    /\ fifo = <<>>

NextRing ==
    \/ \E item \in 1..RingValues : Push(item)
    \/ Pop
    \/ Clear

SpecRing == InitRing /\ [][NextRing]_vars

----------------------------------------------------------------------------
(* C40 *)

\* what n successive pops on rb return
RECURSIVE Pops(_, _)
Pops(rb, n) ==
    IF n = 0 THEN <<>>
    ELSE Only({ <<r.item>> \o Pops(r.rb, n - 1) : r \in { pop(rb) } })

\* C40: after any sequence of push, pop and clear on a RingBuffer of
\* capacity C, len() is at most C, and successive pops return the elements
\* pushed and neither popped, cleared nor pushed out by C later pushes,
\* oldest first, and None from then on.
C40_RingBufferIsBoundedFifo ==
    ring_buffer # NoRing =>
        /\ len(ring_buffer) <= ring_buffer.capacity
        /\ len(ring_buffer) = Len(fifo)
        /\ Pops(ring_buffer, ring_buffer.capacity + 1)
               = fifo \o [i \in 1..(ring_buffer.capacity + 1 - Len(fifo)) |-> NoItem]

\* a full buffer of the largest capacity whose oldest element is not in
\* slot 0, holding distinct elements: one more push drops the oldest and
\* keeps the order of the others
C40_witness_overwrite_oldest ==
    /\ ring_buffer.capacity = RingCapacity
    /\ is_full(ring_buffer)
    /\ ring_buffer.tail # 0
    /\ \A i, j \in 1..Len(fifo) : fifo[i] = fifo[j] => i = j
    /\ \E item \in 1..RingValues :
          Pops(push(ring_buffer, item), RingCapacity) = Tail(fifo) \o <<item>>

====
